---------------------------- MODULE Spec2Model ----------------------------
(***************************************************************************)
(* yggtray: peer discovery, concurrent reachability testing and the        *)
(* dialog's completion accounting.                                         *)
(*                                                                         *)
(* The model follows PeerManager.cpp / PeerManager.h (PeerTestRunnable,    *)
(* PeerManager), PeerDiscoveryDialog.cpp and the unit tests of             *)
(* test_peermanager.cpp.  Threads of the QThreadPool interleave with the   *)
(* main (GUI) thread at every access to shared state: the cancel flag, the *)
(* pool queue and the main thread's event queue.  Slots connected directly *)
(* run inside the handler that emits the signal.  Strings the code parses  *)
(* are sequences of characters.                                            *)
(***************************************************************************)
EXTENDS Integers, Sequences, FiniteSets, Bags, TLC

VARIABLES
    cancelTestsFlag,   \* PeerManager::cancelTestsFlag (QAtomicInt)
    submitted,         \* number of PeerTestRunnable objects testPeer has created
    poolQueue,         \* QThreadPool: queue of runnables not yet started
    running,           \* QThreadPool: bag of the runnables its threads hold
    events,            \* main thread: queued peerTested signals, oldest first
    delivered,         \* number of PeerManager::peerTested emissions
    queuedAtCancel,    \* history: length of the pool queue at the last cancelTests(),
                       \* -1 before the first
    eventTags,         \* history: for each queued signal, whether its probe belongs
                       \* to a batch before the one the dialog started last
    testPc,            \* unit tests: position in the test body
    reply,             \* unit tests: the QNetworkReply handed to handleNetworkResponse
    spy,               \* unit tests: QSignalSpy, the signals PeerManager has emitted
    peerList,          \* PeerDiscoveryDialog::peerList
    testedPeers,       \* PeerDiscoveryDialog::testedPeers
    totalPeers,        \* PeerDiscoveryDialog::totalPeers
    isTesting,         \* PeerDiscoveryDialog::isTesting
    enabled,           \* isEnabled() of refreshButton, testButton, applyButton, exportButton
    inFlight,          \* GET requests of fetchPeers() not yet answered
    crashed,           \* the process has been killed by a fatal signal
    history,           \* history: the batch onTestClicked started last and what the
                       \* dialog has received for it
    uri,               \* getHostname: the argument of the call
    captured,          \* getHostname: the value returned
    selectedPeers,     \* updateConfig: the argument of the call
    sortedPeers,       \* updateConfig: the local list after std::sort
    scriptFile,        \* /tmp/yggtray-update-peers.sh
    policyFile,        \* /tmp/org.yggtray.updatepeers.policy
    peersFile,         \* the peer list file: QTemporaryFile of updateConfig, $PEERS_FILE
    applyPc,           \* updateConfig: position in the function body
    process,           \* updateConfig: the QProcess running pkexec
    returned,          \* updateConfig: the value returned
    configFile,        \* update-peers.sh: $CONFIG_FILE
    backupFile,        \* update-peers.sh: $BACKUP_FILE
    tempFile,          \* update-peers.sh: $TEMP_FILE
    tempPeers,         \* update-peers.sh: $TEMP_FILE.peers
    helperPc,          \* update-peers.sh: position in the script
    helperExit,        \* update-peers.sh: exit status, -1 while it runs
    helperOut,         \* update-peers.sh: lines written to stdout
    configAtStart,     \* history: $CONFIG_FILE when the running script started
    applied,           \* history: $CONFIG_FILE after each successful run
    csvFile,           \* exportPeersToCsv: the file named by fileName
    exported,          \* exportPeersToCsv: the value returned
    runner,            \* ServiceManager::processRunner and what it will answer
    calls,             \* the commands handed to IProcessRunner::run
    serviceReturn,     \* the value a ServiceManager method returned
    pingLog,           \* history: what each run() that stopped its ping did with it
    destructor,        \* where ~PeerManager is: not called, waiting for the pool, done
    tester,            \* PeerTester (worker thread): flag, activeProcesses, processesMutex
    peerTable,         \* PeerDiscoveryDialog::peerTable: rows and sort indicator
    executed           \* history: the script file as the shell under pkexec read it

poolVars == <<cancelTestsFlag, submitted, poolQueue, running, events, delivered,
              queuedAtCancel, eventTags>>

testVars == <<testPc, reply, spy>>

dialogVars == <<peerList, testedPeers, totalPeers, isTesting, enabled, inFlight, crashed,
                history>>

hostVars == <<uri, captured>>

applyVars == <<selectedPeers, sortedPeers, scriptFile, policyFile, peersFile, applyPc,
               process, returned>>

helperVars == <<configFile, backupFile, tempFile, tempPeers, helperPc, helperExit,
                helperOut, configAtStart, applied>>

sideVars == <<csvFile, exported, runner, calls, serviceReturn, pingLog, destructor,
              tester, peerTable, executed>>

mergeVars == <<hostVars, applyVars, helperVars, sideVars>>

vars == <<poolVars, testVars, dialogVars, mergeVars>>

---------------------------------------------------------------------------
(* Program constants *)

maxThreadCount == 5

PING_TIMEOUT_MS == 5000

CHECK_INTERVAL_MS == 100

(* Bounds of the model *)

MaxTasks == 6

MaxPingRounds == 1

MaxProbes == 1

MaxBatches == 2

---------------------------------------------------------------------------
(* Data *)

NoPeer == [host |-> <<>>, latency |-> 0, isValid |-> FALSE]

\* struct PeerData with its default member initialisers
DefaultPeer(h) == [host |-> h, latency |-> -1, isValid |-> FALSE]

\* "example.com"
ExampleHost == <<"e", "x", "a", "m", "p", "l", "e", ".", "c", "o", "m">>

\* PeerData values a direct caller of testPeer may pass
ProbeInputs ==
    { [host |-> ExampleHost, latency |-> l, isValid |-> v] :
          l \in {-1, 12}, v \in BOOLEAN }

\* what a finished ping process left behind: exit status, exit code and whether
\* its output holds the statistics line, with the average in microseconds
PingResult(status, code, match, ok, avg) ==
    [exitStatus |-> status, exitCode |-> code, hasMatch |-> match,
     toDoubleOk |-> ok, avgMicros |-> avg]

AllPingResults ==
    { PingResult("NormalExit", 0, TRUE, TRUE, 7400),
      PingResult("NormalExit", 0, TRUE, TRUE, 7500),
      PingResult("NormalExit", 0, TRUE, FALSE, 0),
      PingResult("NormalExit", 0, FALSE, FALSE, 0),
      PingResult("NormalExit", 1, TRUE, TRUE, 7400),
      PingResult("NormalExit", 2, FALSE, FALSE, 0),
      PingResult("CrashExit", 0, TRUE, TRUE, 7400) }

PoolPingResults ==
    { PingResult("NormalExit", 0, TRUE, TRUE, 7400),
      PingResult("NormalExit", 1, FALSE, FALSE, 0) }

\* static_cast<int>(latency + 0.5) of a non-negative average
RoundLatency(avgMicros) == (avgMicros + 500) \div 1000

\* run(): "Process results only if not cancelled and process finished normally"
ParseResult(peer, r) ==
    IF r.exitStatus = "NormalExit" /\ r.exitCode = 0
    THEN IF r.hasMatch
         THEN IF r.toDoubleOk
              THEN [peer EXCEPT !.latency = RoundLatency(r.avgMicros), !.isValid = TRUE]
              ELSE [peer EXCEPT !.isValid = FALSE]
         ELSE [peer EXCEPT !.isValid = FALSE]
    ELSE [peer EXCEPT !.isValid = FALSE]

---------------------------------------------------------------------------
(* The thread pool *)

\* new PeerTestRunnable(peer, &cancelTestsFlag): the runnable with the locals
\* of its run().  History: stale records that the dialog has started another
\* batch after the one the probe was submitted for, cancelled records that
\* cancelTests() was called after the probe was submitted, pingCalls records
\* what run() saw of and did to its ping process when it stopped it,
\* wasQueuedAtCancel records that a cancelTests() call found the
\* runnable in the pool queue.
PeerTestRunnable(peer) ==
    [pc |-> "run", peerData |-> peer, timeoutRemaining |-> 0, proc |-> "none",
     wasQueuedAtCancel |-> FALSE, stale |-> FALSE, cancelled |-> FALSE,
     pingCalls |-> <<>>]

\* a pool thread whose runnable has returned and which has not yet looked
\* for its next runnable
Returned ==
    [pc |-> "returned", peerData |-> NoPeer, timeoutRemaining |-> 0, proc |-> "none",
     wasQueuedAtCancel |-> FALSE, stale |-> FALSE, cancelled |-> FALSE,
     pingCalls |-> <<>>]

One(r) == SetToBag({r})

Replace(bag, old, new) == (bag (-) One(old)) (+) One(new)

\* QThreadPool::activeThreadCount()
activeThreadCount(bag) == BagCardinality(bag)

Pool(q, r) == [queue |-> q, running |-> r]

\* faulty variant: start() that never queues
PoolStart_NoLimit(pool, task) == [pool EXCEPT !.running = @ (+) One(task)]

\* QThreadPool::start(task): a free thread takes the runnable at once,
\* otherwise it waits in the pool queue
PoolStart(pool, task) ==
    IF activeThreadCount(pool.running) < maxThreadCount
    THEN [pool EXCEPT !.running = @ (+) One(task)]
    ELSE [pool EXCEPT !.queue = Append(@, task)]

\* faulty variant: clear() that removes nothing
PoolClear_Keep(queue) == queue

\* QThreadPool::clear(): the runnables not yet started are removed from the
\* queue and, being autoDelete, deleted without ever running
PoolClear(queue) == <<>>

MarkQueued(queue) ==
    [i \in 1..Len(queue) |-> [queue[i] EXCEPT !.wasQueuedAtCancel = TRUE]]

\* history: the runnables the pool threads hold at a cancelTests() call
MarkCancelled(bag) ==
    LET mark(r) == IF r.pc = "returned" THEN r ELSE [r EXCEPT !.cancelled = TRUE]
        marked == { mark(r) : r \in BagToSet(bag) }
    IN  [m \in marked |->
            IF m.pc = "returned"
            THEN CopiesIn(m, bag)
            ELSE CopiesIn(m, bag) + CopiesIn([m EXCEPT !.cancelled = FALSE], bag)]

\* history: the runnables of the pool when the dialog starts a new batch
MarkStale(bag) ==
    LET mark(r) == IF r.pc = "returned" THEN r ELSE [r EXCEPT !.stale = TRUE]
        marked == { mark(r) : r \in BagToSet(bag) }
    IN  [m \in marked |->
            IF m.pc = "returned"
            THEN CopiesIn(m, bag)
            ELSE CopiesIn(m, bag) + CopiesIn([m EXCEPT !.stale = FALSE], bag)]

MarkStaleQueue(queue) ==
    [i \in 1..Len(queue) |-> [queue[i] EXCEPT !.stale = TRUE]]

\* PeerManager::PeerManager
InitPeerManager ==
    /\ cancelTestsFlag = 0
    /\ submitted = 0
    /\ poolQueue = <<>>
    /\ running = EmptyBag
    /\ events = <<>>
    /\ delivered = 0
    /\ queuedAtCancel = -1
    /\ eventTags = <<>>

NoReply == [error |-> "NoError", errorString |-> "", body |-> <<>>]

\* no unit test is running
InitNoTest ==
    /\ testPc = "idle"
    /\ reply = NoReply
    /\ spy = <<>>

\* history of a dialog that is not testing.  While isTesting: the number of
\* probes submitted for the batch, the number of results received for it and
\* whether all of them were valid.  At all times: whether a peer list has
\* been installed for which no batch has been started yet, and the number of
\* batches started.
NoHistory ==
    [size |-> 0, received |-> 0, allValid |-> TRUE, fresh |-> FALSE, started |-> 0]

\* PeerDiscoveryDialog::PeerDiscoveryDialog and setupUi
InitDialog ==
    /\ peerList = <<>>
    /\ testedPeers = 0
    /\ totalPeers = 0
    /\ isTesting = FALSE
    /\ enabled = [refreshButton |-> TRUE, testButton |-> FALSE,
                  applyButton |-> FALSE, exportButton |-> FALSE]
    /\ inFlight = 0
    /\ crashed = FALSE
    /\ history = NoHistory

\* a file of text lines, and a path at which no file exists
File(lines) == [exists |-> TRUE, lines |-> lines]

NoFile == [exists |-> FALSE, lines |-> <<>>]

\* a QProcess that has not been started
NoProcess == [state |-> "NotRunning", exitCode |-> 0, stdOut |-> <<>>, stdErr |-> <<>>]

\* no getHostname call is under way
InitNoCall ==
    /\ uri = <<>>
    /\ captured = <<>>

\* no updateConfig call is under way
InitNoApply ==
    /\ selectedPeers = <<>>
    /\ sortedPeers = <<>>
    /\ scriptFile = NoFile
    /\ policyFile = NoFile
    /\ peersFile = NoFile
    /\ applyPc = "idle"
    /\ process = NoProcess
    /\ returned = "none"

\* the helper script is not running
InitNoHelper ==
    /\ configFile = NoFile
    /\ backupFile = NoFile
    /\ tempFile = NoFile
    /\ tempPeers = NoFile
    /\ helperPc = "idle"
    /\ helperExit = -1
    /\ helperOut = <<>>
    /\ configAtStart = NoFile
    /\ applied = <<>>

\* a process runner that is never called
NoRunner ==
    [kind |-> "mock", command |-> <<>>, state |-> "exited", exitCode |-> 0,
     output |-> <<>>, errorOutput |-> <<>>]

\* PeerTester after its constructor, with no test requested
NoTester ==
    [cancelRequested |-> 0, activeProcesses |-> {}, processesMutex |-> "free",
     pc |-> "idle", back |-> "idle", pingProcess |-> 0, finishing |-> 0,
     timeoutRemaining |-> 0, unfinished |-> {}, started |-> 0,
     accesses |-> {}, waitedHolding |-> FALSE]

\* peerTable after setupUi: no rows, sorting enabled with the header's initial
\* sort indicator (section 0, descending); applies holds what the last
\* Apply click passed to updateConfig and what the selected rows showed
EmptyTable == [rows |-> <<>>, section |-> 0, order |-> "desc", applies |-> {}]

\* no export is under way and no service is managed
InitNoSide ==
    /\ csvFile = NoFile
    /\ exported = "none"
    /\ runner = NoRunner
    /\ calls = <<>>
    /\ serviceReturn = "none"
    /\ pingLog = {}
    /\ destructor = "alive"
    /\ tester = NoTester
    /\ peerTable = EmptyTable
    /\ executed = NoFile

InitNoMerge == InitNoCall /\ InitNoApply /\ InitNoHelper /\ InitNoSide

Init == InitPeerManager /\ InitNoTest /\ InitDialog /\ InitNoMerge

---------------------------------------------------------------------------
(* PeerManager: operations called on the main thread *)

\* void PeerManager::testPeer(PeerData peer)
testPeer(peer) ==
    /\ submitted' = submitted + 1
    /\ LET pool == PoolStart(Pool(poolQueue, running), PeerTestRunnable(peer))
       IN  /\ poolQueue' = pool.queue
           /\ running' = pool.running
    /\ UNCHANGED <<cancelTestsFlag, events, delivered, queuedAtCancel, eventTags>>

\* void PeerManager::resetCancellation()
resetCancellation ==
    /\ cancelTestsFlag' = 0
    /\ UNCHANGED <<submitted, poolQueue, running, events, delivered, queuedAtCancel,
                   eventTags>>

\* void PeerManager::cancelTests()
cancelTests ==
    /\ cancelTestsFlag' = 1
    /\ poolQueue' = PoolClear(MarkQueued(poolQueue))
    /\ queuedAtCancel' = Len(poolQueue)
    /\ running' = MarkCancelled(running)
    /\ UNCHANGED <<submitted, events, delivered, eventTags>>

\* void PeerManager::handlePeerTested(const PeerData&): the main thread takes
\* the oldest queued signal and emits PeerManager::peerTested for it
handlePeerTested ==
    /\ events # <<>>
    /\ events' = Tail(events)
    /\ eventTags' = Tail(eventTags)
    /\ delivered' = delivered + 1
    /\ UNCHANGED <<cancelTestsFlag, submitted, poolQueue, running, queuedAtCancel>>

---------------------------------------------------------------------------
(* PeerTestRunnable::run(), executed by a pool thread *)

\* polling rounds run() has spent in its wait loop
RoundsUsed(r) == (PING_TIMEOUT_MS - r.timeoutRemaining) \div CHECK_INTERVAL_MS

\* faulty variant: a cancelled run() returns without emitting, as
\* PeerTester::testPeer did
EmitAndReturn_SilentOnCancel(r, peer) ==
    /\ events' = IF cancelTestsFlag # 0 THEN events ELSE Append(events, peer)
    /\ eventTags' = IF cancelTestsFlag # 0 THEN eventTags ELSE Append(eventTags, r.stale)
    /\ running' = Replace(running, r, Returned)

\* "emit peerTested(...); return;": the queued connection posts the call of
\* PeerManager::handlePeerTested to the main thread, run() returns, its
\* locals and the autoDelete runnable are destroyed
EmitAndReturn(r, peer) ==
    /\ events' = Append(events, peer)
    /\ eventTags' = Append(eventTags, r.stale)
    /\ running' = Replace(running, r, Returned)

\* run(), from its first line to pingProcess.start(): the check of the cancel
\* flag before the probe starts
RunStart(r, starts) ==
    /\ r.pc = "run"
    /\ IF cancelTestsFlag # 0
       THEN EmitAndReturn(r, r.peerData)
       ELSE /\ \E s \in starts :
                 running' = Replace(running, r,
                     [r EXCEPT !.pc = "wait", !.proc = s,
                               !.timeoutRemaining = PING_TIMEOUT_MS])
            /\ UNCHANGED <<events, eventTags>>
    /\ UNCHANGED <<cancelTestsFlag, submitted, poolQueue, delivered, queuedAtCancel>>

\* one round of run()'s wait loop with waitForFinished(CHECK_INTERVAL_MS)
\* returning true: the loop ends, the flag is read once more and the result
\* of the process is parsed
RunFinished(r, results) ==
    /\ r.pc = "wait"
    /\ r.proc = "running"
    /\ \E res \in results :
         IF cancelTestsFlag # 0
         THEN EmitAndReturn(r, r.peerData)
         ELSE EmitAndReturn(r, ParseResult(r.peerData, res))
    /\ UNCHANGED <<cancelTestsFlag, submitted, poolQueue, delivered, queuedAtCancel>>

\* faulty variant: the timeout test "timeoutRemaining < 0" in place of "<= 0"
RunPoll_OffByOne(r, maxRounds) ==
    /\ r.pc = "wait"
    /\ RoundsUsed(r) < maxRounds
    /\ IF cancelTestsFlag # 0
       THEN EmitAndReturn(r, r.peerData)
       ELSE IF r.timeoutRemaining - CHECK_INTERVAL_MS < 0
            THEN EmitAndReturn(r, r.peerData)
            ELSE /\ running' = Replace(running, r,
                       [r EXCEPT !.timeoutRemaining = @ - CHECK_INTERVAL_MS])
                 /\ UNCHANGED <<events, eventTags>>
    /\ UNCHANGED <<cancelTestsFlag, submitted, poolQueue, delivered, queuedAtCancel>>

\* one round of the wait loop with waitForFinished returning false: the
\* process has not finished within the interval (or never started).  On the
\* cancellation and timeout paths a process still running is terminated, and
\* killed when it outlives the grace period, before the result is emitted.
RunPoll(r, maxRounds) ==
    /\ r.pc = "wait"
    /\ RoundsUsed(r) < maxRounds
    /\ IF cancelTestsFlag # 0
       THEN EmitAndReturn(r, r.peerData)
       ELSE IF r.timeoutRemaining - CHECK_INTERVAL_MS <= 0
            THEN EmitAndReturn(r, r.peerData)
            ELSE /\ running' = Replace(running, r,
                       [r EXCEPT !.timeoutRemaining = @ - CHECK_INTERVAL_MS])
                 /\ UNCHANGED <<events, eventTags>>
    /\ UNCHANGED <<cancelTestsFlag, submitted, poolQueue, delivered, queuedAtCancel>>

\* QThreadPoolThread::run() after the runnable: under the pool's mutex the
\* thread takes the next queued runnable, or goes idle
ThreadNext(r) ==
    /\ r.pc = "returned"
    /\ IF poolQueue # <<>>
       THEN /\ running' = Replace(running, r, Head(poolQueue))
            /\ poolQueue' = Tail(poolQueue)
       ELSE /\ running' = running (-) One(r)
            /\ poolQueue' = poolQueue
    /\ UNCHANGED <<cancelTestsFlag, submitted, events, delivered, queuedAtCancel,
                   eventTags>>

---------------------------------------------------------------------------
(* Spec: PeerManager driven by an arbitrary caller on the main thread, with  *)
(* ping processes that finish within MaxPingRounds polling rounds           *)

PoolInputs == { DefaultPeer(ExampleHost) }

Submit ==
    /\ submitted < MaxTasks
    /\ \E peer \in PoolInputs : testPeer(peer)
    /\ UNCHANGED <<testVars, dialogVars, mergeVars>>

Cancel == cancelTests /\ UNCHANGED <<testVars, dialogVars, mergeVars>>

Reset == resetCancellation /\ UNCHANGED <<testVars, dialogVars, mergeVars>>

Deliver == handlePeerTested /\ UNCHANGED <<testVars, dialogVars, mergeVars>>

Worker ==
    \E r \in BagToSet(running) :
        /\ \/ RunStart(r, {"running"})
           \/ RunFinished(r, PoolPingResults)
           \/ RunPoll(r, MaxPingRounds)
           \/ ThreadNext(r)
        /\ UNCHANGED <<testVars, dialogVars, mergeVars>>

Next == Submit \/ Cancel \/ Reset \/ Deliver \/ Worker

Spec == Init /\ [][Next]_vars

---------------------------------------------------------------------------
(* Derived quantities *)

\* runnables held by a thread whose run() has not returned yet
Busy == BagCardinality(running) - CopiesIn(Returned, running)

\* nothing queued, nothing running, no signal pending
Drained == poolQueue = <<>> /\ running = EmptyBag /\ events = <<>>

\* submissions that are neither queued, nor running, nor have emitted:
\* the runnables QThreadPool::clear() deleted
Dropped == submitted - Len(poolQueue) - Busy - Len(events) - delivered

---------------------------------------------------------------------------
(* C1: for every call of testPeer exactly one peerTested result is          *)
(* delivered, whatever the interleaving with cancelTests(): once the pool   *)
(* has drained and no signal is pending, as many results have been          *)
(* delivered as testPeer was called, and never more.                        *)
C1_EverySubmitDelivers ==
    /\ delivered <= submitted
    /\ Drained => delivered = submitted

---------------------------------------------------------------------------
---------------------------------------------------------------------------
(* C5: at most maxThreadCount = 5 runnables are held by pool threads in any *)
(* reachable state, and a runnable waits in the queue only while all 5      *)
(* threads are taken.                                                       *)
C5_AtMostFiveRunning ==
    /\ activeThreadCount(running) <= maxThreadCount
    /\ poolQueue # <<>> => activeThreadCount(running) = maxThreadCount

C5_Witness ==
    /\ poolQueue # <<>>
    /\ activeThreadCount(running) = maxThreadCount
    /\ \E r \in BagToSet(running) : r.pc = "wait"

---------------------------------------------------------------------------
(* test_cancelTests_cancels_all (tests/unit/test_peermanager.cpp): the test *)
(* submits TestPeerCount peers, calls cancelTests() at once, lets the event *)
(* loop run for the time of qWait(200) and then reads the signal spy.       *)

TestPeerCount == 10

\* p.host = "peer<i>"; p.latency = -1; p.isValid = false -- run() never
\* branches on the host, so the ten hosts are not told apart
TestPeer(i) == [host |-> <<"p", "e", "e", "r">>, latency |-> -1, isValid |-> FALSE]

InitTest ==
    /\ InitPeerManager
    /\ InitDialog
    /\ InitNoMerge
    /\ testPc = "submit"
    /\ reply = NoReply
    /\ spy = <<>>

\* for (const PeerData& p : peers) mgr.testPeer(p);
TestSubmit ==
    /\ testPc = "submit"
    /\ submitted < TestPeerCount
    /\ testPeer(TestPeer(submitted))
    /\ UNCHANGED <<testPc, reply, spy, dialogVars, mergeVars>>

\* mgr.cancelTests();
TestCancel ==
    /\ testPc = "submit"
    /\ submitted = TestPeerCount
    /\ cancelTests
    /\ testPc' = "qWait"
    /\ UNCHANGED <<reply, spy, dialogVars, mergeVars>>

\* QTest::qWait(200): the main thread's event loop delivers queued signals
TestWait ==
    /\ testPc = "qWait"
    /\ handlePeerTested
    /\ UNCHANGED <<testPc, reply, spy, dialogVars, mergeVars>>

\* int count = spy.count(); ck_assert(count < 3);
TestCount ==
    /\ testPc = "qWait"
    /\ testPc' = "assert"
    /\ UNCHANGED <<poolVars, reply, spy, dialogVars, mergeVars>>

TestWorker ==
    \E r \in BagToSet(running) :
        /\ \/ RunStart(r, {"running"})
           \/ RunFinished(r, PoolPingResults)
           \/ RunPoll(r, MaxPingRounds)
           \/ ThreadNext(r)
        /\ UNCHANGED <<testPc, reply, spy, dialogVars, mergeVars>>

NextTest == TestSubmit \/ TestCancel \/ TestWait \/ TestCount \/ TestWorker

SpecCancelTest == InitTest /\ [][NextTest]_vars

---------------------------------------------------------------------------
(* A single probe in full: any PeerData may be handed to testPeer, the ping *)
(* subprocess may fail to start, hang, or end with any result, and the wait *)
(* loop runs its full length.                                               *)

\* number of CHECK_INTERVAL_MS polls that fit into PING_TIMEOUT_MS
PollRounds == PING_TIMEOUT_MS \div CHECK_INTERVAL_MS

ProbeSubmit ==
    /\ submitted < MaxProbes
    /\ \E peer \in ProbeInputs : testPeer(peer)
    /\ UNCHANGED <<testVars, dialogVars, mergeVars>>

ProbeWorker ==
    \E r \in BagToSet(running) :
        /\ \/ RunStart(r, {"running", "failedToStart"})
           \/ RunFinished(r, AllPingResults)
           \/ RunPoll(r, PollRounds + MaxPingRounds)
           \/ ThreadNext(r)
        /\ UNCHANGED <<testVars, dialogVars, mergeVars>>

NextProbe == ProbeSubmit \/ Cancel \/ Reset \/ Deliver \/ ProbeWorker

SpecProbe == Init /\ [][NextProbe]_vars

Last(seq) == seq[Len(seq)]

\* run() returns on the skip path (line 33) or on a cancel path (62, 92)
SkippedOrCancelled(r) ==
    /\ r.pc \in {"run", "wait"}
    /\ cancelTestsFlag # 0
    /\ EmitAndReturn(r, r.peerData)

\* run() returns on the timeout path (line 77)
TimedOut(r) ==
    /\ r.pc = "wait"
    /\ cancelTestsFlag = 0
    /\ r.timeoutRemaining - CHECK_INTERVAL_MS <= 0
    /\ EmitAndReturn(r, r.peerData)

(* C6: for every PeerData passed to testPeer, whatever its incoming latency *)
(* and isValid fields, the result emitted on the skipped, cancelled or      *)
(* timed-out path has isValid = FALSE.                                      *)
C6_AbortedIsNotValid ==
    [][\A r \in BagToSet(running) :
          (SkippedOrCancelled(r) \/ TimedOut(r)) => ~Last(events').isValid]_vars

(* C7: with a ping that never finishes and no cancellation, run() leaves    *)
(* its wait loop after at most PING_TIMEOUT_MS / CHECK_INTERVAL_MS = 50     *)
(* polls: no runnable is in the loop with 50 polls behind it, and the step  *)
(* that ends the 50th poll emits the result and returns.                    *)
C7_WaitLoopBounded ==
    /\ [](\A r \in BagToSet(running) :
             r.pc = "wait" => RoundsUsed(r) < PollRounds /\ r.timeoutRemaining > 0)
    /\ [][\A r \in BagToSet(running) :
             (/\ r.pc = "wait"
              /\ RoundsUsed(r) = PollRounds - 1
              /\ CopiesIn(r, running') < CopiesIn(r, running)
              /\ running' # MarkCancelled(running))
                => /\ Len(events') = Len(events) + 1
                   /\ CopiesIn(Returned, running') = CopiesIn(Returned, running) + 1]_vars

\* a probe whose ping has not finished in 49 polls, with no cancellation
C7_Witness ==
    /\ cancelTestsFlag = 0
    /\ queuedAtCancel = -1
    /\ \E r \in BagToSet(running) :
          r.pc = "wait" /\ RoundsUsed(r) = PollRounds - 1

---------------------------------------------------------------------------
(* Peer discovery: PeerManager::getHostname and handleNetworkResponse *)

SetMin(S) == CHOOSE x \in S : \A y \in S : x <= y

SetMax(S) == CHOOSE x \in S : \A y \in S : x >= y

Range(seq) == { seq[i] : i \in DOMAIN seq }

\* s has the literal lit at position i
StartsWith(s, i, lit) ==
    /\ i >= 1
    /\ i + Len(lit) - 1 <= Len(s)
    /\ SubSeq(s, i, i + Len(lit) - 1) = lit

Schemes == { <<"t", "l", "s">>, <<"t", "c", "p">>, <<"q", "u", "i", "c">> }

SchemeSep == <<":", "/", "/">>

\* the character class [a-zA-Z0-9:.\-]
HostChars ==
    { "a", "b", "c", "d", "e", "f", "g", "h", "i", "j", "k", "l", "m",
      "n", "o", "p", "q", "r", "s", "t", "u", "v", "w", "x", "y", "z",
      "A", "B", "C", "D", "E", "F", "G", "H", "I", "J", "K", "L", "M",
      "N", "O", "P", "Q", "R", "S", "T", "U", "V", "W", "X", "Y", "Z",
      "0", "1", "2", "3", "4", "5", "6", "7", "8", "9", ":", ".", "-" }

\* first position at or after j that holds no character of the class
RunEnd(s, j) ==
    SetMin({ k \in j..(Len(s) + 1) : k = Len(s) + 1 \/ s[k] \notin HostChars })

\* "\]?:" matches at position k
ClosesAt(s, k) == StartsWith(s, k, <<"]", ":">>) \/ StartsWith(s, k, <<":">>)

\* "([a-zA-Z0-9:.\-]+)\]?:" from position j: the greedy group gives back
\* characters until the rest matches; the position after the group, or 0
HostEnd(s, j) ==
    LET ends == { k \in (j + 1)..RunEnd(s, j) : ClosesAt(s, k) }
    IN  IF ends = {} THEN 0 ELSE SetMax(ends)

\* the regular expression of getHostname tried at position i: capture group
\* 1, or the empty sequence when there is no match at i
MatchAt(s, i) ==
    LET found == { sch \in Schemes : StartsWith(s, i, sch \o SchemeSep) }
    IN  IF found = {}
        THEN <<>>
        ELSE LET sch == CHOOSE x \in found : TRUE
                 open == i + Len(sch) + Len(SchemeSep)
                 inner == IF StartsWith(s, open, <<"[">>) THEN open + 1 ELSE open
                 withBracket == HostEnd(s, inner)
                 without == HostEnd(s, open)
             IN  IF withBracket # 0
                 THEN SubSeq(s, inner, withBracket - 1)
                 ELSE IF without # 0
                      THEN SubSeq(s, open, without - 1)
                      ELSE <<>>

\* QString PeerManager::getHostname(const QString& peerUri) const
getHostname(peerUri) ==
    LET at == { i \in 1..Len(peerUri) : MatchAt(peerUri, i) # <<>> }
    IN  IF at = {} THEN <<>> ELSE MatchAt(peerUri, SetMin(at))

IsSpace(c) == c \in {" ", "\n", "\t"}

\* QString::trimmed()
trimmed(s) ==
    LET ink == { i \in 1..Len(s) : ~IsSpace(s[i]) }
    IN  IF ink = {} THEN <<>> ELSE SubSeq(s, SetMin(ink), SetMax(ink))

\* An html body is the sequence of its elements, each with its opening tag,
\* the characters up to the closing tag, and the closing tag.
Element(open, text, close) == [open |-> open, text |-> text, close |-> close]

TdOpenTags == { "<td>", "<td class=\"uri\">" }

\* tdRe, "<td[^>]*>([^<]+)</td>", matches the element
TdMatches(e) ==
    /\ e.open \in TdOpenTags
    /\ e.text # <<>>
    /\ "<" \notin Range(e.text)
    /\ e.close = "</td>"

\* tdRe.globalMatch(html): captured(1) of every match, in order
RECURSIVE globalMatch(_)
globalMatch(html) ==
    IF html = <<>>
    THEN <<>>
    ELSE (IF TdMatches(Head(html)) THEN <<Head(html).text>> ELSE <<>>)
             \o globalMatch(Tail(html))

\* faulty variant: a scan that drops a URI already in the list
RECURSIVE ScanMatches_Dedup(_, _)
ScanMatches_Dedup(matches, peers) ==
    IF matches = <<>>
    THEN peers
    ELSE LET peerUri == trimmed(Head(matches))
             hostname == getHostname(peerUri)
         IN  IF hostname # <<>> /\ DefaultPeer(peerUri) \notin Range(peers)
             THEN ScanMatches_Dedup(Tail(matches), Append(peers, DefaultPeer(peerUri)))
             ELSE ScanMatches_Dedup(Tail(matches), peers)

\* the while (it.hasNext()) loop of handleNetworkResponse
RECURSIVE ScanMatches(_, _)
ScanMatches(matches, peers) ==
    IF matches = <<>>
    THEN peers
    ELSE LET peerUri == trimmed(Head(matches))
             hostname == getHostname(peerUri)
         IN  IF hostname # <<>>
             THEN ScanMatches(Tail(matches), Append(peers, DefaultPeer(peerUri)))
             ELSE ScanMatches(Tail(matches), peers)

Signal(name, peers, message) == [signal |-> name, peers |-> peers, message |-> message]

\* faulty variant: a failed fetch reported as an empty discovery
handleNetworkResponse_Conflated(r) ==
    IF r.error = "NoError"
    THEN << Signal("peersDiscovered", ScanMatches(globalMatch(r.body), <<>>), <<>>) >>
    ELSE << Signal("peersDiscovered", <<>>, <<>>) >>

\* void PeerManager::handleNetworkResponse(QNetworkReply* reply): the signals
\* it emits, in order
handleNetworkResponse(r) ==
    IF r.error = "NoError"
    THEN << Signal("peersDiscovered", ScanMatches(globalMatch(r.body), <<>>), <<>>) >>
    ELSE << Signal("error", <<>>, <<"Failed to fetch peers: ", r.errorString>>) >>

---------------------------------------------------------------------------
(* The unit tests of handleNetworkResponse (test_peersDiscovered_signal,    *)
(* test_error_signal_network_failure, test_peersDiscovered_empty_list,      *)
(* test_error_signal_peerlist_unreachable): a DummyReply is built, the slot *)
(* is invoked directly and the signal spies are read.                       *)

Tls == <<"t", "l", "s">>

Tcp == <<"t", "c", "p">>

Quic == <<"q", "u", "i", "c">>

Port == <<":", "1", "2">>

\* "2001:db8::1" and "192.168.1.1"
Ipv6Host == <<"2", "0", "0", "1", ":", "d", "b", "8", ":", ":", "1">>

Ipv4Host == <<"1", "9", "2", ".", "1", "6", "8", ".", "1", ".", "1">>

\* texts a cell of the public peers page may hold
CellTexts ==
    { Tls \o SchemeSep \o <<"[">> \o Ipv6Host \o <<"]">> \o Port,
      Tcp \o SchemeSep \o Ipv4Host \o Port,
      Quic \o SchemeSep \o ExampleHost \o Port,
      <<" ", "\n">> \o Tls \o SchemeSep \o ExampleHost \o Port \o <<" ">>,
      <<"x">> \o Tls \o SchemeSep \o ExampleHost \o Port,
      Tls \o SchemeSep \o <<"[">> \o ExampleHost \o Port,
      Tls \o SchemeSep \o ExampleHost,
      Tls \o SchemeSep \o Port,
      <<"h", "t", "t", "p">> \o SchemeSep \o ExampleHost \o Port,
      Tls \o <<":", "/">> \o ExampleHost \o Port,
      ExampleHost,
      <<" ", " ">> }

\* "<a>" ... "</a>" around a URI inside the cell
Linked(text) == <<"<", "a", ">">> \o text \o <<"<", "/", "a", ">">>

Elements ==
    { Element("<td>", t, "</td>") : t \in CellTexts \cup {<<>>} }
        \cup { Element("<td class=\"uri\">", Tcp \o SchemeSep \o Ipv4Host \o Port, "</td>"),
               Element("<th>", Tcp \o SchemeSep \o Ipv4Host \o Port, "</th>"),
               Element("<td>", Tcp \o SchemeSep \o Ipv4Host \o Port, ""),
               Element("<td>", Linked(Tcp \o SchemeSep \o Ipv4Host \o Port), "</td>") }

MaxCells == 3

Bodies == UNION { [1..n -> Elements] : n \in 0..MaxCells }

\* DummyReply with setError(code, str)
FetchReplies ==
    { [error |-> "NoError", errorString |-> "", body |-> b] : b \in Bodies }
        \cup { [error |-> "ConnectionRefusedError", errorString |-> "Connection refused",
                body |-> <<>>],
               [error |-> "HostNotFoundError", errorString |-> "Host not found",
                body |-> <<>>] }

InitFetch ==
    /\ InitPeerManager
    /\ InitDialog
    /\ InitNoMerge
    /\ testPc = "invoke"
    /\ reply \in FetchReplies
    /\ spy = <<>>

\* QMetaObject::invokeMethod(&mgr, "handleNetworkResponse", Qt::DirectConnection, reply)
TestInvoke ==
    /\ testPc = "invoke"
    /\ spy' = spy \o handleNetworkResponse(reply)
    /\ testPc' = "count"
    /\ UNCHANGED <<reply, poolVars, dialogVars, mergeVars>>

\* reply->deleteLater() and the end of the test
TestEnd ==
    /\ testPc = "count"
    /\ testPc' = "end"
    /\ UNCHANGED <<reply, spy, poolVars, dialogVars, mergeVars>>

NextFetch == TestInvoke \/ TestEnd

SpecFetch == InitFetch /\ [][NextFetch]_vars

(* C9: for every reply handled by handleNetworkResponse exactly one signal  *)
(* is emitted, once: peersDiscovered (also with an empty list) for a reply  *)
(* without error, and error, carrying the transport's error string, for a   *)
(* reply with a transport error.                                            *)
C9_ExactlyOneOutcome ==
    /\ testPc = "invoke" => spy = <<>>
    /\ testPc \in {"count", "end"} =>
          /\ Len(spy) = 1
          /\ reply.error = "NoError" => spy[1].signal = "peersDiscovered"
          /\ reply.error # "NoError" =>
                /\ spy[1].signal = "error"
                /\ reply.errorString \in Range(spy[1].message)

\* a refused connection has been reported as an error
C9_Witness ==
    /\ testPc = "count"
    /\ reply.error = "ConnectionRefusedError"
    /\ Len(spy) = 1
    /\ spy[1].signal = "error"

\* the cell texts of a body's <td> cells, in order
CellsOf(body) ==
    LET IsCell(e) == e.open \in TdOpenTags /\ e.close = "</td>" /\ "<" \notin Range(e.text)
        cells == SelectSeq(body, IsCell)
    IN  [i \in 1..Len(cells) |-> trimmed(cells[i].text)]

(* C10: the list emitted with peersDiscovered holds, in the order of the    *)
(* response, one entry for every table cell whose text yields a non-empty   *)
(* getHostname, duplicates included, and nothing else; every entry has the  *)
(* cell's text as host, latency -1 and isValid FALSE.                       *)
C10_CandidatesInOrder ==
    (testPc \in {"count", "end"} /\ reply.error = "NoError") =>
        LET Yields(text) == getHostname(text) # <<>>
            kept == SelectSeq(CellsOf(reply.body), Yields)
        IN  /\ Len(spy) = 1
            /\ Len(spy[1].peers) = Len(kept)
            /\ \A i \in 1..Len(kept) :
                  spy[1].peers[i] = [host |-> kept[i], latency |-> -1, isValid |-> FALSE]

\* three cells, the same URI twice and one cell that is dropped
C10_Witness ==
    /\ testPc = "count"
    /\ Len(reply.body) = 3
    /\ Len(spy) = 1
    /\ Len(spy[1].peers) = 2
    /\ spy[1].peers[1] = spy[1].peers[2]
    /\ reply.body[1] = reply.body[3]

---------------------------------------------------------------------------
(* PeerDiscoveryDialog: the handlers of the dialog, each run to completion  *)
(* on the main thread together with the PeerManager calls it makes.         *)

MaxFetches == 1

\* void PeerDiscoveryDialog::onRefreshClicked()
onRefreshClicked ==
    /\ ~crashed
    /\ enabled.refreshButton
    /\ inFlight < MaxFetches
    /\ enabled' = [enabled EXCEPT !.testButton = FALSE, !.applyButton = FALSE,
                                  !.exportButton = FALSE]
    /\ inFlight' = inFlight + 1
    /\ UNCHANGED <<peerList, testedPeers, totalPeers, isTesting, crashed, history>>
    /\ UNCHANGED <<poolVars, testVars, mergeVars>>

\* void PeerDiscoveryDialog::onPeersDiscovered(const QList<PeerData>& peers)
onPeersDiscovered(peers) ==
    /\ peerList' = peers
    /\ testedPeers' = 0
    /\ totalPeers' = Len(peers)
    /\ enabled' = [enabled EXCEPT !.testButton = TRUE, !.exportButton = Len(peers) > 0]
    /\ UNCHANGED isTesting

\* void PeerDiscoveryDialog::onError(const QString& message): a message box
onError(message) ==
    UNCHANGED <<peerList, testedPeers, totalPeers, isTesting, enabled>>

\* the slots connected to PeerManager::peersDiscovered and PeerManager::error
\* in setupConnections(), run for the signal handleNetworkResponse emits
DiscoverySlots(sigs) ==
    IF sigs = <<>>
    THEN UNCHANGED <<peerList, testedPeers, totalPeers, isTesting, enabled>>
    ELSE IF Head(sigs).signal = "peersDiscovered"
         THEN onPeersDiscovered(Head(sigs).peers)
         ELSE onError(Head(sigs).message)

UriA == Tls \o SchemeSep \o <<"h">> \o Port

\* answers of the public peers page: a transport error, no cell, one peer,
\* and one peer more than the pool has threads (the same URI in every cell)
DialogReplies ==
    { [error |-> "HostNotFoundError", errorString |-> "Host not found", body |-> <<>>],
      [error |-> "NoError", errorString |-> "", body |-> <<>>],
      [error |-> "NoError", errorString |-> "",
       body |-> << Element("<td>", UriA, "</td>") >>],
      [error |-> "NoError", errorString |-> "",
       body |-> [i \in 1..(maxThreadCount + 1) |-> Element("<td>", UriA, "</td>")]] }

\* what handleNetworkResponse emits for these answers
DialogSignals == { handleNetworkResponse(r) : r \in DialogReplies }

\* QNetworkAccessManager::finished for a request of fetchPeers(): the slot
\* handleNetworkResponse with the slots connected to its signals
NetworkFinished ==
    /\ ~crashed
    /\ inFlight > 0
    /\ inFlight' = inFlight - 1
    /\ \E sigs \in DialogSignals :
          /\ DiscoverySlots(sigs)
          /\ history' = IF sigs # <<>> /\ Head(sigs).signal = "peersDiscovered"
                        THEN [history EXCEPT !.fresh = TRUE]
                        ELSE history
    /\ UNCHANGED crashed
    /\ UNCHANGED <<poolVars, testVars, mergeVars>>

\* void PeerDiscoveryDialog::stopTesting()
stopTesting ==
    IF ~isTesting
    THEN UNCHANGED <<poolVars, peerList, testedPeers, totalPeers, isTesting, enabled>>
    ELSE /\ cancelTests
         /\ isTesting' = FALSE
         /\ enabled' = [enabled EXCEPT !.refreshButton = TRUE,
                                       !.applyButton = IF testedPeers > 0 THEN TRUE ELSE @,
                                       !.exportButton = peerList # <<>>]
         /\ UNCHANGED <<peerList, testedPeers, totalPeers>>

\* the loop "for (const PeerData& peer : peerList)" of onTestClicked
RECURSIVE TestPeers(_, _)
TestPeers(pool, peers) ==
    IF peers = <<>>
    THEN pool
    ELSE LET peerToTest == [Head(peers) EXCEPT !.latency = -1, !.isValid = FALSE]
         IN  TestPeers(PoolStart(pool, PeerTestRunnable(peerToTest)), Tail(peers))

\* history: a batch of the peers of peerList begins
BatchBegun ==
    [size |-> Len(peerList), received |-> 0, allValid |-> TRUE, fresh |-> FALSE,
     started |-> history.started + 1]

\* history: the dialog receives a result, of a probe of the batch under test
\* or of an earlier one
ResultReceived(stale, peer) ==
    IF stale
    THEN history
    ELSE [history EXCEPT !.received = @ + 1, !.allValid = @ /\ peer.isValid]

\* history: the batch is over for the dialog
BatchOver == [NoHistory EXCEPT !.fresh = history.fresh, !.started = history.started]

\* faulty variant: a batch start that leaves the cancel flag as it is
StartBatch_NoReset ==
    /\ testedPeers' = 0
    /\ totalPeers' = Len(peerList)
    /\ enabled' = [enabled EXCEPT !.applyButton = FALSE, !.exportButton = FALSE,
                                  !.refreshButton = FALSE]
    /\ isTesting' = TRUE
    /\ cancelTestsFlag' = cancelTestsFlag
    /\ LET pool == TestPeers(Pool(MarkStaleQueue(poolQueue), MarkStale(running)),
                             peerList)
       IN  /\ poolQueue' = pool.queue
           /\ running' = pool.running
    /\ submitted' = submitted + Len(peerList)
    /\ eventTags' = [i \in 1..Len(eventTags) |-> TRUE]
    /\ UNCHANGED <<events, delivered, queuedAtCancel, peerList>>

\* onTestClicked from resetTableUI() on: the counters are reset, the cancel
\* flag is cleared and every peer of the list is submitted
StartBatch ==
    /\ testedPeers' = 0
    /\ totalPeers' = Len(peerList)
    /\ enabled' = [enabled EXCEPT !.applyButton = FALSE, !.exportButton = FALSE,
                                  !.refreshButton = FALSE]
    /\ isTesting' = TRUE
    /\ cancelTestsFlag' = 0
    /\ LET pool == TestPeers(Pool(MarkStaleQueue(poolQueue), MarkStale(running)),
                             peerList)
       IN  /\ poolQueue' = pool.queue
           /\ running' = pool.running
    /\ submitted' = submitted + Len(peerList)
    /\ eventTags' = [i \in 1..Len(eventTags) |-> TRUE]
    /\ UNCHANGED <<events, delivered, queuedAtCancel, peerList>>

\* void PeerDiscoveryDialog::onTestClicked()
onTestClicked ==
    /\ ~crashed
    /\ enabled.testButton
    /\ IF isTesting
       THEN /\ stopTesting
            /\ history' = BatchOver
       ELSE IF peerList = <<>>
            THEN UNCHANGED <<poolVars, peerList, testedPeers, totalPeers, isTesting,
                             enabled, history>>
            ELSE /\ submitted + Len(peerList) <= MaxTasks
                 /\ history.started < MaxBatches
                 /\ StartBatch
                 /\ history' = BatchBegun
    /\ UNCHANGED <<inFlight, crashed, testVars, mergeVars>>

\* the loop of onPeerTested over peerList: the first entry with the host of
\* the result takes its latency and validity
UpdateFirst(list, peer) ==
    LET hits == { i \in 1..Len(list) : list[i].host = peer.host }
    IN  IF hits = {}
        THEN list
        ELSE [list EXCEPT ![SetMin(hits)] =
                 [@ EXCEPT !.latency = peer.latency, !.isValid = peer.isValid]]

\* void PeerDiscoveryDialog::onPeerTested(const PeerData& peer), after the
\* progress bar has been set
onPeerTested(peer) ==
    /\ testedPeers' = testedPeers + 1
    /\ peerList' = UpdateFirst(peerList, peer)
    /\ totalPeers' = totalPeers
    /\ IF testedPeers + 1 = totalPeers
       THEN /\ enabled' = [applyButton |-> TRUE, testButton |-> TRUE,
                           refreshButton |-> TRUE,
                           exportButton |-> UpdateFirst(peerList, peer) # <<>>]
            /\ isTesting' = FALSE
       ELSE UNCHANGED <<enabled, isTesting>>

\* PeerManager::handlePeerTested emits peerTested, whose slot is onPeerTested.
\* With totalPeers = 0 the division (testedPeers * 100) / totalPeers is
\* undefined: it traps, or yields some value for the progress bar.
PeerTestedSlot ==
    /\ ~crashed
    /\ handlePeerTested
    /\ IF totalPeers = 0
       THEN \/ /\ crashed' = TRUE
               /\ testedPeers' = testedPeers + 1
               /\ UNCHANGED <<peerList, totalPeers, isTesting, enabled>>
            \/ /\ onPeerTested(Head(events))
               /\ UNCHANGED crashed
       ELSE /\ onPeerTested(Head(events))
            /\ UNCHANGED crashed
    /\ history' = IF isTesting'
                  THEN ResultReceived(Head(eventTags), Head(events))
                  ELSE BatchOver
    /\ UNCHANGED <<inFlight, testVars, mergeVars>>

\* the pool threads under the dialog.  A round of the wait loop that finds
\* neither the cancel flag nor the timeout only counts timeoutRemaining
\* down, which nothing in the dialog reads and which stays above zero within
\* MaxPingRounds rounds: such rounds are left as stuttering steps, the round
\* that finds the cancel flag is a step.
DialogWorker ==
    \E r \in BagToSet(running) :
        /\ ~crashed
        /\ \/ RunStart(r, {"running"})
           \/ RunFinished(r, PoolPingResults)
           \/ cancelTestsFlag # 0 /\ RunPoll(r, MaxPingRounds)
           \/ ThreadNext(r)
        /\ UNCHANGED <<testVars, dialogVars, mergeVars>>

NextDialog ==
    onRefreshClicked \/ NetworkFinished \/ onTestClicked \/ PeerTestedSlot \/ DialogWorker

SpecDialog == Init /\ [][NextDialog]_vars

(* One discovery, then batches: the dialog after Refresh has been clicked   *)
(* once, with a user who goes on clicking Test and Stop.  The pool threads  *)
(* keep running and the event loop keeps delivering queued signals.         *)
InitBatch ==
    /\ InitPeerManager
    /\ InitNoTest
    /\ InitNoMerge
    /\ peerList = <<>>
    /\ testedPeers = 0
    /\ totalPeers = 0
    /\ isTesting = FALSE
    /\ enabled = [refreshButton |-> TRUE, testButton |-> FALSE,
                  applyButton |-> FALSE, exportButton |-> FALSE]
    /\ inFlight = 1
    /\ crashed = FALSE
    /\ history = NoHistory

NextBatch == NetworkFinished \/ onTestClicked \/ PeerTestedSlot \/ DialogWorker

SpecBatchLive ==
    /\ InitBatch
    /\ [][NextBatch]_vars
    /\ WF_vars(DialogWorker)
    /\ WF_vars(PeerTestedSlot)

(* C2: for every batch started by onTestClicked, testedPeers eventually     *)
(* equals totalPeers, also when stopTesting()/cancelTests() is invoked      *)
(* during the batch.                                                        *)
C2_BatchCompletes == isTesting ~> (testedPeers = totalPeers)

(* C8: every batch start clears the cancel flag before its first            *)
(* submission: the step that starts a batch leaves the flag cleared, and    *)
(* while a batch is being tested the flag stays cleared, so no probe is     *)
(* skipped or aborted for a cancellation requested during an earlier batch. *)
C8_FlagClearedForBatch ==
    /\ [](isTesting => cancelTestsFlag = 0)
    /\ [][(submitted' > submitted) => cancelTestsFlag' = 0]_vars

\* after an earlier batch was cancelled a new batch is being tested and one
\* of its probes is pinging
C8_Witness ==
    /\ isTesting
    /\ cancelTestsFlag = 0
    /\ queuedAtCancel >= 0
    /\ submitted > totalPeers
    /\ \E r \in BagToSet(running) : r.pc = "wait"

---------------------------------------------------------------------------
(* getHostname on its own: test_getHostname_basic calls it with a string    *)
(* and compares the value returned.                                         *)

Http == <<"h", "t", "t", "p">>

\* hosts the URI grammar allows, as written in the URI and bare
GrammarHosts ==
    { [text |-> <<"[">> \o Ipv6Host \o <<"]">>, bare |-> Ipv6Host],
      [text |-> Ipv4Host, bare |-> Ipv4Host],
      [text |-> ExampleHost, bare |-> ExampleHost] }

\* host parts the grammar does not allow: an unclosed bracket, a bracket that
\* was never opened, a name with an underscore, no host at all
OtherHosts ==
    { <<"[">> \o Ipv6Host,
      Ipv6Host \o <<"]">>,
      <<"e", "x", "_", "a">>,
      <<>> }

\* the URIs (tls|tcp|quic)://host:port of the grammar
GrammarUris ==
    { sch \o SchemeSep \o h.text \o Port : sch \in Schemes, h \in GrammarHosts }

\* the bare host of a URI of the grammar
BareHost(u) ==
    (CHOOSE h \in GrammarHosts :
        \E sch \in Schemes : u = sch \o SchemeSep \o h.text \o Port).bare

\* strings passed to getHostname: the URIs of the grammar, and strings that
\* differ from one in a prefix, the scheme, the separator, the host, the
\* port or a suffix
HostnameInputs ==
    { pre \o sch \o sep \o h \o port \o suf :
          pre \in { <<>>, <<"x">>, <<"s", "e", "e", " ">> },
          sch \in Schemes \cup { Http },
          sep \in { SchemeSep, <<":", "/">> },
          h \in { g.text : g \in GrammarHosts } \cup OtherHosts,
          port \in { Port, <<":">>, <<>>, <<":", "x">> },
          suf \in { <<>>, <<"/", "p">> } }
        \cup { <<"i", "n", "v", "a", "l", "i", "d", "s", "t", "r", "i", "n", "g">> }

InitHostname ==
    /\ InitPeerManager
    /\ InitDialog
    /\ InitNoSide
    /\ InitNoApply
    /\ InitNoHelper
    /\ testPc = "call"
    /\ reply = NoReply
    /\ spy = <<>>
    /\ uri \in HostnameInputs
    /\ captured = <<>>

\* mgr.getHostname(...)
TestCall ==
    /\ testPc = "call"
    /\ captured' = getHostname(uri)
    /\ testPc' = "assert"
    /\ UNCHANGED <<uri, reply, spy, poolVars, dialogVars, applyVars, helperVars, sideVars>>

\* ck_assert_str_eq(...) and the end of the test
TestAssert ==
    /\ testPc = "assert"
    /\ testPc' = "end"
    /\ UNCHANGED <<uri, captured, reply, spy, poolVars, dialogVars, applyVars,
                   helperVars, sideVars>>

NextHostname == TestCall \/ TestAssert

SpecHostname == InitHostname /\ [][NextHostname]_vars

(* C11: getHostname returns the bare host for every URI                     *)
(* (tls|tcp|quic)://host:port whose host is a bracketed IPv6 literal, an     *)
(* IPv4 literal or a DNS name, and the empty string for every other input.  *)
C11_HostOrEmpty ==
    testPc \in {"assert", "end"} =>
        captured = IF uri \in GrammarUris THEN BareHost(uri) ELSE <<>>

---------------------------------------------------------------------------
(* The result of a probe that ran to the end (SpecProbe) *)

\* run() reaches line 126: the ping process has finished with res and the
\* cancel flag is clear at the check of line 92
Finished(r, res) ==
    /\ r.pc = "wait"
    /\ r.proc = "running"
    /\ cancelTestsFlag = 0
    /\ EmitAndReturn(r, ParseResult(r.peerData, res))

\* the ping process never started: waitForFinished returns false at once in
\* every round, and run() returns at line 87 when the rounds are used up
SpawnFailed(r) ==
    /\ r.proc = "failedToStart"
    /\ TimedOut(r)

\* the process exited normally with code 0 and its output holds a
\* round-trip statistics line with a numeric average
HasStatistics(res) ==
    /\ res.exitStatus = "NormalExit"
    /\ res.exitCode = 0
    /\ res.hasMatch
    /\ res.toDoubleOk

(* C12: a probe that is neither cancelled nor timed out emits isValid =     *)
(* TRUE with the rounded average as latency exactly when the ping output    *)
(* holds a round-trip statistics line; after no match, a non-zero exit, an  *)
(* abnormal exit or a spawn failure it emits isValid = FALSE and latency    *)
(* -1, for every PeerData passed to testPeer.                               *)
C12_ParsedOrInvalid ==
    [][\A r \in BagToSet(running) :
          /\ \A res \in AllPingResults :
                Finished(r, res) =>
                    IF HasStatistics(res)
                    THEN /\ Last(events').isValid
                         /\ Last(events').latency = RoundLatency(res.avgMicros)
                    ELSE /\ ~Last(events').isValid
                         /\ Last(events').latency = -1
          /\ SpawnFailed(r) =>
                /\ ~Last(events').isValid
                /\ Last(events').latency = -1]_vars

---------------------------------------------------------------------------
(* PeerManager::updateConfig: the selection is sorted, the helper script    *)
(* and its policy file are extracted to /tmp, the peers are written to a    *)
(* temporary file and pkexec runs the script on it.  The call blocks the    *)
(* main thread until the script has finished or SCRIPT_TIMEOUT_MS is over.  *)

MaxSelected == 3

UriB == Tcp \o SchemeSep \o Ipv4Host \o Port

UriC == Quic \o SchemeSep \o <<"[">> \o Ipv6Host \o <<"]">> \o Port

\* rows of the dialog's table: tested and reachable, or not (yet) valid
ApplyPeers ==
    { [host |-> UriA, latency |-> 5, isValid |-> TRUE],
      [host |-> UriB, latency |-> 5, isValid |-> TRUE],
      [host |-> UriC, latency |-> 9, isValid |-> TRUE],
      [host |-> UriA, latency |-> -1, isValid |-> FALSE],
      [host |-> UriB, latency |-> -1, isValid |-> FALSE] }

\* onApplyClicked passes the selected rows, or the whole list, never an
\* empty list
Selections ==
    UNION { [1..n -> ApplyPeers] : n \in 1..MaxSelected }

\* the comparator handed to std::sort
PeerLess(a, b) ==
    IF a.isValid /\ b.isValid
    THEN a.latency < b.latency
    ELSE a.isValid /\ ~b.isValid

Arrangements(n) ==
    { f \in [1..n -> 1..n] : \A i, j \in 1..n : f[i] = f[j] => i = j }

\* faulty variant: the selection left in the order of the table
SortedLists_Unsorted(peers) == { peers }

\* std::sort(sortedPeers.begin(), sortedPeers.end(), comparator): the sort is
\* not stable, so every arrangement of the list that the comparator accepts
\* is a possible outcome
SortedLists(peers) ==
    { s \in { [i \in 1..Len(peers) |-> peers[f[i]]] : f \in Arrangements(Len(peers)) } :
          \A i, j \in 1..Len(s) : i < j => ~PeerLess(s[j], s[i]) }

\* the lines of a text: the pieces between its newline characters
RECURSIVE TextLines(_, _)
TextLines(text, line) ==
    IF text = <<>>
    THEN IF line = <<>> THEN <<>> ELSE << line >>
    ELSE IF Head(text) = "\n"
         THEN << line >> \o TextLines(Tail(text), <<>>)
         ELSE TextLines(Tail(text), Append(line, Head(text)))

\* stream << peer.host << "\n" for every peer of the list
RECURSIVE WriteHosts(_)
WriteHosts(peers) ==
    IF peers = <<>>
    THEN <<>>
    ELSE TextLines(Head(peers).host \o <<"\n">>, <<>>) \o WriteHosts(Tail(peers))

IsValidPeer(p) == p.isValid

\* faulty variant: no fallback when no peer is valid
PeerListText_NoFallback(sorted) == WriteHosts(SelectSeq(sorted, IsValidPeer))

\* lines 341-368: the valid peers, or all peers when none is valid
PeerListText(sorted) ==
    IF SelectSeq(sorted, IsValidPeer) # <<>>
    THEN WriteHosts(SelectSeq(sorted, IsValidPeer))
    ELSE WriteHosts(sorted)

\* what the script prints, word by word
SuccessText == <<"Peers", "updated", "successfully", "in", "/etc/yggdrasil.conf">>

ErrorText == <<"Error:", "Yggdrasil", "config", "not", "found">>

SuccessMarker == <<"updated", "successfully">>

\* QString::contains
Contains(text, phrase) ==
    \E i \in 1..Len(text) : StartsWith(text, i, phrase)

\* exit code and output of a pkexec run that finished in time: the script's
\* own exit codes 0 and 1, another code of the script or the shell, and the
\* codes 126 and 127 of pkexec itself
HelperOutcomes ==
    { [state |-> "Finished", exitCode |-> c, stdOut |-> o, stdErr |-> e] :
          c \in {0, 1, 2, 126, 127},
          o \in { <<>>, SuccessText },
          e \in { <<>>, ErrorText, SuccessText } }

\* faulty variant: the success marker is not looked for
ExitInterpreted_NoMarker(p) == p.exitCode = 0

\* lines 397-437: whether updateConfig takes the finished run for a success
ExitInterpreted(p) ==
    \/ p.exitCode = 0
    \/ /\ Contains(p.stdOut, SuccessMarker) \/ Contains(p.stdErr, SuccessMarker)
       /\ p.exitCode = 1

\* lines 413-419: the message of the error signal
FailureMessage(p) ==
    << "Update script failed with exit code ", p.exitCode,
       IF p.stdErr # <<>> THEN p.stdErr ELSE p.stdOut >>

\* "return ...;": the locals go out of scope, ~QTemporaryFile removes the
\* peers file if it was opened
Return(value) ==
    /\ returned' = value
    /\ applyPc' = "returned"
    /\ peersFile' = NoFile

\* lines 300-316
UpdateSort ==
    /\ applyPc = "sort"
    /\ sortedPeers' \in SortedLists(selectedPeers)
    /\ applyPc' = "extractScript"
    /\ UNCHANGED <<selectedPeers, scriptFile, policyFile, peersFile, process, returned>>
    /\ UNCHANGED <<poolVars, testVars, dialogVars, hostVars, helperVars, sideVars>>

\* lines 318-325: extractResource(":/scripts/update-peers.sh", scriptPath)
ExtractScript ==
    /\ applyPc = "extractScript"
    /\ \/ /\ scriptFile' = File(<< <<"#!/bin/sh">> >>)
          /\ applyPc' = "extractPolicy"
          /\ UNCHANGED <<peersFile, returned>>
       \/ /\ Return("false")
          /\ UNCHANGED scriptFile
    /\ UNCHANGED <<selectedPeers, sortedPeers, policyFile, process>>
    /\ UNCHANGED <<poolVars, testVars, dialogVars, hostVars, helperVars, sideVars>>

\* lines 327-332: extractResource(":/polkit/org.yggtray.updatepeers.policy", policyPath)
ExtractPolicy ==
    /\ applyPc = "extractPolicy"
    /\ \/ /\ policyFile' = File(<< <<"<policyconfig>">> >>)
          /\ applyPc' = "openPeers"
          /\ UNCHANGED <<scriptFile, peersFile, returned>>
       \/ /\ scriptFile' = NoFile
          /\ Return("false")
          /\ UNCHANGED policyFile
    /\ UNCHANGED <<selectedPeers, sortedPeers, process>>
    /\ UNCHANGED <<poolVars, testVars, dialogVars, hostVars, helperVars, sideVars>>

\* lines 334-339: peersFile.open()
OpenPeersFile ==
    /\ applyPc = "openPeers"
    /\ \/ /\ peersFile' = File(<<>>)
          /\ applyPc' = "write"
          /\ UNCHANGED returned
       \/ Return("false")
    /\ UNCHANGED <<selectedPeers, sortedPeers, scriptFile, policyFile, process>>
    /\ UNCHANGED <<poolVars, testVars, dialogVars, hostVars, helperVars, sideVars>>

\* lines 341-386: the peers are written and pkexec is started on the file
WriteAndStart ==
    /\ applyPc = "write"
    /\ peersFile' = File(PeerListText(sortedPeers))
    /\ process' = [NoProcess EXCEPT !.state = "Running"]
    /\ applyPc' = "wait"
    /\ UNCHANGED <<selectedPeers, sortedPeers, scriptFile, policyFile, returned>>
    /\ UNCHANGED <<poolVars, testVars, dialogVars, hostVars, helperVars, sideVars>>

\* lines 388-395: waitForFinished(SCRIPT_TIMEOUT_MS) returns false
HelperTimedOut ==
    /\ applyPc = "wait"
    /\ process' = [process EXCEPT !.state = "TimedOut"]
    /\ scriptFile' = NoFile
    /\ policyFile' = NoFile
    /\ spy' = Append(spy, Signal("error", <<>>, <<"Update script timed out">>))
    /\ Return("false")
    /\ UNCHANGED <<selectedPeers, sortedPeers, testPc, reply>>
    /\ UNCHANGED <<poolVars, dialogVars, hostVars, helperVars, sideVars>>

\* lines 397-437: the script has finished in time
HelperFinished ==
    /\ applyPc = "wait"
    /\ \E p \in HelperOutcomes :
          /\ process' = p
          /\ IF ExitInterpreted(p)
             THEN /\ Return("true")
                  /\ UNCHANGED spy
             ELSE /\ spy' = Append(spy, Signal("error", <<>>, FailureMessage(p)))
                  /\ Return("false")
    /\ scriptFile' = NoFile
    /\ policyFile' = NoFile
    /\ UNCHANGED <<selectedPeers, sortedPeers, testPc, reply>>
    /\ UNCHANGED <<poolVars, dialogVars, hostVars, helperVars, sideVars>>

\* onApplyClicked calls updateConfig(selectedPeers)
InitApply ==
    /\ InitPeerManager
    /\ InitNoTest
    /\ InitDialog
    /\ InitNoSide
    /\ InitNoCall
    /\ InitNoHelper
    /\ selectedPeers \in Selections
    /\ sortedPeers = <<>>
    /\ scriptFile = NoFile
    /\ policyFile = NoFile
    /\ peersFile = NoFile
    /\ applyPc = "sort"
    /\ process = NoProcess
    /\ returned = "none"

NextApply ==
    \/ UpdateSort
    \/ ExtractScript
    \/ ExtractPolicy
    \/ OpenPeersFile
    \/ WriteAndStart
    \/ HelperTimedOut
    \/ HelperFinished

SpecApply == InitApply /\ [][NextApply]_vars

\* the valid peers of the sorted list
ValidSorted == SelectSeq(sortedPeers, IsValidPeer)

HostsOf(peers) == [i \in 1..Len(peers) |-> peers[i].host]

\* the peers of a list as a bag
PeerBag(peers) ==
    [p \in Range(peers) |-> Cardinality({ i \in 1..Len(peers) : peers[i] = p })]

(* C13: when at least one selected peer is valid, the list handed to the    *)
(* helper holds one URI per line, no invalid peer precedes a valid one and  *)
(* the valid peers come in ascending latency order: the file is the hosts   *)
(* of the selection's valid peers, lowest latency first.                    *)
C13_ValidFirstByLatency ==
    (applyPc = "wait" /\ \E i \in 1..Len(selectedPeers) : selectedPeers[i].isValid)
        => /\ peersFile.exists
           /\ peersFile.lines = HostsOf(ValidSorted)
           /\ PeerBag(ValidSorted) = PeerBag(SelectSeq(selectedPeers, IsValidPeer))
           /\ \A i, j \in 1..Len(ValidSorted) :
                 i < j => ValidSorted[i].latency <= ValidSorted[j].latency
           /\ \A i, j \in 1..Len(sortedPeers) :
                 (i < j /\ sortedPeers[j].isValid) => sortedPeers[i].isValid

\* the helper runs on a selection in which a slower valid peer and an
\* invalid peer were listed before the fastest one
C13_Witness ==
    /\ applyPc = "wait"
    /\ Len(selectedPeers) = 3
    /\ ~selectedPeers[1].isValid
    /\ selectedPeers[2].isValid
    /\ selectedPeers[3].isValid
    /\ selectedPeers[3].latency < selectedPeers[2].latency
    /\ Len(peersFile.lines) = 2

(* C14: when no selected peer is valid, updateConfig does not fail for that *)
(* reason: all selected peers are written to the transfer file and the      *)
(* helper is started on it.                                                 *)
C14_FallbackWritesAll ==
    /\ [](( /\ applyPc = "wait"
            /\ \A i \in 1..Len(selectedPeers) : ~selectedPeers[i].isValid)
              => /\ peersFile.exists
                 /\ peersFile.lines = HostsOf(sortedPeers)
                 /\ PeerBag(sortedPeers) = PeerBag(selectedPeers)
                 /\ process.state = "Running")
    /\ [][applyPc = "write" => applyPc' = "wait" /\ returned' = "none"]_vars

\* the helper runs on a selection of two peers that are both invalid
C14_Witness ==
    /\ applyPc = "wait"
    /\ Len(selectedPeers) = 2
    /\ \A i \in 1..Len(selectedPeers) : ~selectedPeers[i].isValid
    /\ Len(peersFile.lines) = 2
    /\ process.state = "Running"

C16_TemporariesRemoved ==
    applyPc = "returned"
        => ~scriptFile.exists /\ ~policyFile.exists /\ ~peersFile.exists

---------------------------------------------------------------------------
(* update-peers.sh: the helper script that pkexec runs as root.  A text     *)
(* file is the sequence of its lines, a line the sequence of its            *)
(* characters.                                                              *)

MAX_PEERS == 15

MaxPeerLines == 17

MaxBefore == 1

MaxAfter == 2

MaxRuns == 2

DigitChars == <<"0", "1", "2", "3", "4", "5", "6", "7", "8", "9">>

\* the decimal digits of a number below 100
Digits(n) ==
    IF n < 10
    THEN << DigitChars[n + 1] >>
    ELSE << DigitChars[(n \div 10) + 1], DigitChars[(n % 10) + 1] >>

\* every character of s from position i on is a digit, and there is one
AllDigits(s, i) ==
    /\ i <= Len(s)
    /\ \A k \in i..Len(s) : s[k] \in Range(DigitChars)

\* grep -qE '^(tls|tcp|quic)://[^[:space:]]+:[0-9]+$'
WellFormed(line) ==
    \E sch \in Schemes :
        /\ StartsWith(line, 1, sch \o SchemeSep)
        /\ \E k \in (Len(sch) + Len(SchemeSep) + 2)..Len(line) :
              /\ line[k] = ":"
              /\ \A m \in 1..(k - 1) : ~IsSpace(line[m])
              /\ AllDigits(line, k + 1)

\* the loop of lines 60-86 over the lines still to read, with COUNT peers
\* written so far
RECURSIVE ReadPeers(_, _)
ReadPeers(lines, count) ==
    IF lines = <<>>
    THEN <<>>
    ELSE LET line == trimmed(Head(lines))
         IN  IF Head(lines) = <<>> \/ line = <<>> \/ ~WellFormed(line)
             THEN ReadPeers(Tail(lines), count)
             ELSE IF count + 1 <= MAX_PEERS
                  THEN << line >> \o ReadPeers(Tail(lines), count + 1)
                  ELSE <<>>

PeersOpenLine == <<"P", "e", "e", "r", "s", ":", " ", "[">>

PeersCloseLine == <<"]">>

\* faulty variant: the loop without the limit of MAX_PEERS
PeersBlock_NoLimit(lines) ==
    << PeersOpenLine >>
        \o SelectSeq([i \in 1..Len(lines) |-> trimmed(lines[i])], WellFormed)
        \o << PeersCloseLine >>

\* lines 54-88: the text written to $TEMP_FILE.peers
PeersBlock(lines) ==
    << PeersOpenLine >> \o ReadPeers(lines, 0) \o << PeersCloseLine >>

\* position of the first character of the line that is not white space, or
\* one past its end
FirstInk(line) ==
    SetMin({ k \in 1..(Len(line) + 1) : k = Len(line) + 1 \/ ~IsSpace(line[k]) })

\* position where [[:space:]]* starting at i ends
SkipSpace(line, i) ==
    SetMin({ k \in i..(Len(line) + 1) : k = Len(line) + 1 \/ ~IsSpace(line[k]) })

\* awk: /^[[:space:]]*Peers[[:space:]]*:[[:space:]]*\[/
OpensPeers(line) ==
    LET p == FirstInk(line)
        c == SkipSpace(line, p + 5)
        b == SkipSpace(line, c + 1)
    IN  /\ StartsWith(line, p, <<"P", "e", "e", "r", "s">>)
        /\ StartsWith(line, c, <<":">>)
        /\ StartsWith(line, b, <<"[">>)

\* awk: /^[[:space:]]*\]/
ClosesPeers(line) == StartsWith(line, FirstInk(line), <<"]">>)

\* faulty variant: the new block is appended and the old block is kept
AwkRewrite_Append(lines, inPeers, block) == lines \o block

\* the awk program of lines 99-119 over the lines still to read, with the
\* value of in_peers_section
RECURSIVE AwkRewrite(_, _, _)
AwkRewrite(lines, inPeers, block) ==
    IF lines = <<>>
    THEN <<>>
    ELSE IF OpensPeers(Head(lines))
         THEN block \o AwkRewrite(Tail(lines), TRUE, block)
         ELSE IF inPeers /\ ClosesPeers(Head(lines))
              THEN AwkRewrite(Tail(lines), FALSE, block)
              ELSE IF ~inPeers
                   THEN << Head(lines) >> \o AwkRewrite(Tail(lines), FALSE, block)
                   ELSE AwkRewrite(Tail(lines), TRUE, block)

\* grep -q '[^[:space:]]'
HasInk(lines) ==
    \E i \in 1..Len(lines) : FirstInk(lines[i]) <= Len(lines[i])

\* grep -q "Peers:"
MentionsPeers(lines) ==
    \E i \in 1..Len(lines) : Contains(lines[i], <<"P", "e", "e", "r", "s", ":">>)
\* "  Listen: []"
ListenLine == <<" ", " ", "L", "i", "s", "t", "e", "n", ":", " ", "[", "]">>

\* "  AllowedPublicKeys: ["
KeysOpenLine == <<" ", " ", "A", "l", "l", "o", "w", "e", "d", "P", "u",
    "b", "l", "i", "c", "K", "e", "y", "s", ":", " ", "[">>

\* "  ]"
ArrayCloseLine == <<" ", " ", "]">>

\* "  IfName: auto"
IfNameLine == <<" ", " ", "I", "f", "N", "a", "m", "e", ":", " ", "a", "u",
    "t", "o">>

\* "  InterfacePeers: {}"
InterfacePeersLine == <<" ", " ", "I", "n", "t", "e", "r", "f", "a", "c",
    "e", "P", "e", "e", "r", "s", ":", " ", "{", "}">>

\* "  Peers: []"
EmptyPeersLine == <<" ", " ", "P", "e", "e", "r", "s", ":", " ", "[", "]">>

\* "  Peers: ['tls://h:1']"
QuotedPeersLine == <<" ", " ", "P", "e", "e", "r", "s", ":", " ", "[", "\"",
    "t", "l", "s", ":", "/", "/", "h", ":", "1", "\"", "]">>

\* "  Peers: ["
IndentedOpenLine == <<" ", " ", "P", "e", "e", "r", "s", ":", " ", "[">>

\* "    tls://h:1"
OldPeerLine == <<" ", " ", " ", " ", "t", "l", "s", ":", "/", "/", "h", ":",
    "1">>
\* faulty variant: no copy is made
BackupCopy_Skip(config, backup) == backup

\* cp "$CONFIG_FILE" "$BACKUP_FILE": the new content of the backup
BackupCopy(config, backup) == config

\* "tls://h:<n>"
GoodLine(n) == <<"t", "l", "s", ":", "/", "/", "h", ":">> \o Digits(n)

GoodLines(n) == [i \in 1..n |-> GoodLine(i)]

\* lines of a peer list that are not peers: blank lines, an unknown scheme,
\* a port that is no number, no port, white space inside
JunkLines ==
    { <<>>,
      <<" ", "\t">>,
      <<"h", "t", "t", "p", ":", "/", "/", "h", ":", "1">>,
      <<"t", "l", "s", ":", "/", "/", "h", ":", "x">>,
      <<"t", "l", "s", ":", "/", "/", "h">>,
      <<"t", "l", "s", ":", "/", "/", "h", " ", "h", ":", "1">> }

\* a peer with white space around it
PaddedLine == <<" ", " ">> \o GoodLine(0) \o <<" ">>

InsertAt(lines, k, line) ==
    SubSeq(lines, 1, k) \o << line >> \o SubSeq(lines, k + 1, Len(lines))

\* peer lists of up to MaxPeerLines peers, alone or with one other line
\* somewhere among them
LongPeerLists ==
    { GoodLines(n) : n \in 0..MaxPeerLines }
        \cup UNION { { InsertAt(GoodLines(n), k, x) :
                          k \in 0..n, x \in JunkLines \cup { PaddedLine } } :
                      n \in 0..MaxPeerLines }

ShortPeerLists == { << GoodLine(2), GoodLine(1) >>, <<>> }

\* lines of yggdrasil.conf outside the Peers block
OtherLines == { ListenLine, KeysOpenLine, ArrayCloseLine, IfNameLine }

\* the Peers block as yggdrasil -genconf writes it, as JSON on one line, and
\* on several lines
OldBlocks ==
    { << EmptyPeersLine >>,
      << QuotedPeersLine >>,
      << IndentedOpenLine, ArrayCloseLine >>,
      << IndentedOpenLine, OldPeerLine, ArrayCloseLine >> }

SeqsUpTo(S, n) == UNION { [1..m -> S] : m \in 0..n }

\* configurations with one Peers block
BlockConfigs ==
    { pre \o blk \o post :
          pre \in SeqsUpTo(OtherLines, MaxBefore),
          blk \in OldBlocks,
          post \in SeqsUpTo(OtherLines, MaxAfter) }

\* configurations without a Peers block
OtherConfigs == { << IfNameLine >>, << InterfacePeersLine, IfNameLine >> }

DefaultConfig == << IndentedOpenLine, OldPeerLine, ArrayCloseLine, IfNameLine >>

\* exit: the EXIT trap, once set, removes both temporary files
Exit(code, trapSet) ==
    /\ helperExit' = code
    /\ helperPc' = "done"
    /\ IF trapSet
       THEN tempFile' = NoFile /\ tempPeers' = NoFile
       ELSE UNCHANGED <<tempFile, tempPeers>>

\* lines 16-35: the argument and the configuration file are looked for
HelperLocate ==
    /\ helperPc = "locate"
    /\ IF configFile.exists
       THEN /\ helperPc' = "mktemp"
            /\ UNCHANGED <<helperExit, tempFile, tempPeers>>
       ELSE Exit(1, FALSE)
    /\ UNCHANGED <<configFile, backupFile, helperOut, configAtStart, applied>>
    /\ UNCHANGED <<poolVars, testVars, dialogVars, hostVars, applyVars, sideVars>>

\* lines 37-46: mktemp, the test for the peer list file, the trap
HelperMktemp ==
    /\ helperPc = "mktemp"
    /\ tempFile' = File(<<>>)
    /\ IF peersFile.exists
       THEN /\ helperPc' = "backup"
            /\ UNCHANGED helperExit
       ELSE /\ helperExit' = 1
            /\ helperPc' = "done"
    /\ UNCHANGED <<configFile, backupFile, tempPeers, helperOut, configAtStart, applied>>
    /\ UNCHANGED <<poolVars, testVars, dialogVars, hostVars, applyVars, sideVars>>

\* lines 48-50
HelperBackup ==
    /\ helperPc = "backup"
    /\ backupFile' = BackupCopy(configFile, backupFile)
    /\ helperPc' = "peers"
    /\ UNCHANGED <<configFile, tempFile, tempPeers, helperExit, helperOut,
                   configAtStart, applied>>
    /\ UNCHANGED <<poolVars, testVars, dialogVars, hostVars, applyVars, sideVars>>

\* lines 52-94: the new block is written to $TEMP_FILE.peers and tested
HelperPeers ==
    /\ helperPc = "peers"
    /\ IF HasInk(PeersBlock(peersFile.lines))
       THEN /\ tempPeers' = File(PeersBlock(peersFile.lines))
            /\ helperPc' = "awk"
            /\ UNCHANGED <<helperExit, tempFile>>
       ELSE Exit(1, TRUE)
    /\ UNCHANGED <<configFile, backupFile, helperOut, configAtStart, applied>>
    /\ UNCHANGED <<poolVars, testVars, dialogVars, hostVars, applyVars, sideVars>>

\* lines 96-119
HelperAwk ==
    /\ helperPc = "awk"
    /\ tempFile' = File(AwkRewrite(configFile.lines, FALSE, tempPeers.lines))
    /\ helperPc' = "verify"
    /\ UNCHANGED <<configFile, backupFile, tempPeers, helperExit, helperOut,
                   configAtStart, applied>>
    /\ UNCHANGED <<poolVars, testVars, dialogVars, hostVars, applyVars, sideVars>>

\* lines 121-131
HelperVerify ==
    /\ helperPc = "verify"
    /\ IF tempFile.lines # <<>> /\ MentionsPeers(tempFile.lines)
       THEN /\ helperPc' = "replace"
            /\ UNCHANGED <<helperExit, tempFile, tempPeers>>
       ELSE Exit(1, TRUE)
    /\ UNCHANGED <<configFile, backupFile, helperOut, configAtStart, applied>>
    /\ UNCHANGED <<poolVars, testVars, dialogVars, hostVars, applyVars, sideVars>>

Take(seq, n) == SubSeq(seq, 1, IF Len(seq) < n THEN Len(seq) ELSE n)

\* what a cp that fails leaves at its destination: the file truncated, or
\* written up to the point of the failure
CopyFailures(file) ==
    { File(Take(file.lines, k)) : k \in { 0, Len(file.lines) - 1 } }

\* lines 133-143: cp "$TEMP_FILE" "$CONFIG_FILE" and the messages.  A cp that
\* fails (no space left, an I/O error) ends the script under set -e with
\* cp's exit code; a failure of an earlier command ends it before the
\* configuration is touched.
HelperReplace ==
    /\ helperPc = "replace"
    /\ \/ /\ configFile' = tempFile
          /\ helperOut' = << SuccessText >>
          /\ applied' = Append(applied, tempFile.lines)
          /\ Exit(0, TRUE)
       \/ /\ configFile' \in CopyFailures(tempFile)
          /\ Exit(1, TRUE)
          /\ UNCHANGED <<helperOut, applied>>
    /\ UNCHANGED <<backupFile, configAtStart>>
    /\ UNCHANGED <<poolVars, testVars, dialogVars, hostVars, applyVars, sideVars>>

\* the same selection is applied once more: the script runs again on the
\* same peer list
HelperRerun ==
    /\ helperPc = "done"
    /\ helperExit = 0
    /\ Len(applied) < MaxRuns
    /\ helperPc' = "locate"
    /\ helperExit' = -1
    /\ helperOut' = <<>>
    /\ configAtStart' = configFile
    /\ UNCHANGED <<configFile, backupFile, tempFile, tempPeers, applied>>
    /\ UNCHANGED <<poolVars, testVars, dialogVars, hostVars, applyVars, sideVars>>

\* sh update-peers.sh <peer-list-file>, run by pkexec
InitHelper ==
    /\ InitPeerManager
    /\ InitNoTest
    /\ InitDialog
    /\ InitNoSide
    /\ InitNoCall
    /\ selectedPeers = <<>>
    /\ sortedPeers = <<>>
    /\ scriptFile = File(<< <<"#!/bin/sh">> >>)
    /\ policyFile = File(<< <<"<policyconfig>">> >>)
    /\ applyPc = "wait"
    /\ process = [NoProcess EXCEPT !.state = "Running"]
    /\ returned = "none"
    /\ \/ /\ configFile \in { File(c) : c \in BlockConfigs \cup OtherConfigs } \cup { NoFile }
          /\ peersFile \in { File(p) : p \in ShortPeerLists } \cup { NoFile }
       \/ /\ configFile = File(DefaultConfig)
          /\ peersFile \in { File(p) : p \in LongPeerLists }
    /\ backupFile = NoFile
    /\ tempFile = NoFile
    /\ tempPeers = NoFile
    /\ helperPc = "locate"
    /\ helperExit = -1
    /\ helperOut = <<>>
    /\ configAtStart = configFile
    /\ applied = <<>>

NextHelper ==
    \/ HelperLocate
    \/ HelperMktemp
    \/ HelperBackup
    \/ HelperPeers
    \/ HelperAwk
    \/ HelperVerify
    \/ HelperReplace
    \/ HelperRerun

SpecHelper == InitHelper /\ [][NextHelper]_vars
\* index of the line that opens the Peers block of a configuration, 0 when
\* it has none
BlockStart(c) ==
    LET opens == { i \in 1..Len(c) : OpensPeers(c[i]) }
    IN  IF opens = {} THEN 0 ELSE SetMin(opens)

\* the block is closed on the line that opens it
EndsOnLine(line) ==
    trimmed(line) # <<>> /\ Last(trimmed(line)) = "]"

\* index of the line that closes the Peers block
BlockEnd(c) ==
    LET i == BlockStart(c)
        closes == { j \in (i + 1)..Len(c) : ClosesPeers(c[j]) }
    IN  IF EndsOnLine(c[i])
        THEN i
        ELSE IF closes = {} THEN Len(c) ELSE SetMin(closes)

\* the lines of a configuration outside its Peers block
NonPeers(c) ==
    IF BlockStart(c) = 0
    THEN c
    ELSE SubSeq(c, 1, BlockStart(c) - 1) \o SubSeq(c, BlockEnd(c) + 1, Len(c))

\* the entries of a Peers block written on several lines
BlockEntries(c) == SubSeq(c, BlockStart(c) + 1, BlockEnd(c) - 1)

\* the well-formed peer lines of the peer lists
KnownPeers == { GoodLine(n) : n \in 0..(MaxPeerLines + 1) }

IsKnownPeer(line) == line \in KnownPeers

\* the well-formed lines of a peer list, trimmed, in file order
PeerLinesOf(lines) ==
    SelectSeq([i \in 1..Len(lines) |-> trimmed(lines[i])], IsKnownPeer)


(* C17: for every configuration with a Peers block, on one line or on       *)
(* several, a successful run changes only that block: the lines outside the *)
(* block are the same, in the same order, before and after.                 *)
C17_OnlyPeersBlockChanges ==
    (helperPc = "done" /\ helperExit = 0 /\ BlockStart(configAtStart.lines) # 0)
        => NonPeers(configFile.lines) = NonPeers(configAtStart.lines)

(* C18: the Peers block a successful run writes holds at most MAX_PEERS =   *)
(* 15 entries: the first 15 well-formed lines of the peer list, trimmed, in *)
(* file order.                                                              *)
C18_FirstFifteenPeers ==
    (helperPc = "done" /\ helperExit = 0 /\ BlockStart(configAtStart.lines) # 0)
        => /\ Len(BlockEntries(configFile.lines)) <= MAX_PEERS
           /\ BlockEntries(configFile.lines) = Take(PeerLinesOf(peersFile.lines), MAX_PEERS)

\* a run on a list of more than 15 peers with another line among the first
\* 15
C18_Witness ==
    /\ helperPc = "done"
    /\ helperExit = 0
    /\ Len(PeerLinesOf(peersFile.lines)) > MAX_PEERS
    /\ \E k \in 1..MAX_PEERS : peersFile.lines[k] \in JunkLines
    /\ Len(BlockEntries(configFile.lines)) = MAX_PEERS

(* C19: the backup is written before the configuration is modified, and    *)
(* after a successful run the backup equals the configuration as it was     *)
(* when that run started.                                                   *)
C19_BackupBeforeChange ==
    /\ [][configFile' # configFile
             => backupFile.exists /\ backupFile = configAtStart]_vars
    /\ []((helperPc = "done" /\ helperExit = 0) => backupFile = configAtStart)

\* a first run has rewritten the configuration and the backup holds the old
\* one
C19_Witness ==
    /\ helperPc = "done"
    /\ helperExit = 0
    /\ Len(applied) = 1
    /\ configFile # configAtStart
    /\ backupFile = configAtStart

(* C20: applying the same peer list again does not change the rest of the   *)
(* file: the lines outside the Peers block after a run are those after the  *)
(* run before it.                                                           *)
C20_SecondRunKeepsRest ==
    \A n \in 1..(Len(applied) - 1) : NonPeers(applied[n + 1]) = NonPeers(applied[n])

\* the script has run twice on a configuration with lines around the block
C20_Witness ==
    /\ helperPc = "done"
    /\ Len(applied) = 2
    /\ BlockStart(applied[2]) = 2
    /\ Len(NonPeers(applied[2])) >= 2

---------------------------------------------------------------------------
(* PeerManager::exportPeersToCsv, called by onExportClicked with the        *)
(* dialog's peer list after a discovery (the Export button is enabled for a *)
(* list that is not empty) and the file name chosen in the file dialog.     *)

MaxExport == 2

Quote == <<"\"">>

Comma == <<",">>

\* "Host","Latency (ms)","Valid"
CsvHeader ==
    Quote \o <<"H", "o", "s", "t">> \o Quote \o Comma
        \o Quote \o <<"L", "a", "t", "e", "n", "c", "y", " ", "(", "m", "s", ")">>
        \o Quote \o Comma
        \o Quote \o <<"V", "a", "l", "i", "d">> \o Quote

FailedText == <<"F", "a", "i", "l", "e", "d">>

NotTestedText == <<"N", "o", "t", " ", "T", "e", "s", "t", "e", "d">>

ValidText == <<"V", "a", "l", "i", "d">>

InvalidText == <<"I", "n", "v", "a", "l", "i", "d">>

\* latencyStr
LatencyCell(peer) ==
    IF peer.latency < -1
    THEN FailedText
    ELSE IF peer.latency = -1
         THEN NotTestedText
         ELSE Digits(peer.latency)

\* faulty variant: the verdict is shown for every peer
ValidityCell_Always(peer) == IF peer.isValid THEN ValidText ELSE InvalidText

\* validityStr
ValidityCell(peer) ==
    IF peer.latency # -1
    THEN IF peer.isValid THEN ValidText ELSE InvalidText
    ELSE <<>>

\* the loop over peerList: what is streamed to the file for each peer
RECURSIVE CsvRows(_)
CsvRows(peers) ==
    IF peers = <<>>
    THEN <<>>
    ELSE Quote \o Head(peers).host \o Quote \o Comma
             \o Quote \o LatencyCell(Head(peers)) \o Quote \o Comma
             \o Quote \o ValidityCell(Head(peers)) \o Quote \o <<"\n">>
             \o CsvRows(Tail(peers))

\* the lines of a text file: the pieces of the text that its newline
\* characters end, and what follows the last of them
FileLines(text) ==
    LET ends == { i \in 1..Len(text) : text[i] = "\n" }
        end(k) == CHOOSE i \in ends : Cardinality({ j \in ends : j < i }) = k - 1
        start(k) == IF k = 1 THEN 1 ELSE end(k - 1) + 1
        n == Cardinality(ends)
        rest == IF n = 0 THEN text ELSE SubSeq(text, end(n) + 1, Len(text))
    IN  [k \in 1..n |-> SubSeq(text, start(k), end(k) - 1)]
            \o (IF rest = <<>> THEN <<>> ELSE << rest >>)

\* bool PeerManager::exportPeersToCsv(fileName, peerList) with a file that
\* could be opened
exportPeersToCsv(peers) ==
    /\ csvFile' = File(FileLines(CsvHeader \o <<"\n">> \o CsvRows(peers)))
    /\ exported' = "true"

\* "peer1", "peer2"
Peer1 == <<"p", "e", "e", "r", "1">>

Peer2 == <<"p", "e", "e", "r", "2">>

\* rows of the dialog and of test_exportPeersToCsv_basic: untested, tested,
\* and with a latency below -1
ExportPeers ==
    { [host |-> h, latency |-> l, isValid |-> v] :
          h \in { Peer1, Peer2, UriC }, l \in { -2, -1, 0, 10 }, v \in BOOLEAN }

ExportLists == UNION { [1..n -> ExportPeers] : n \in 0..MaxExport }

\* what was at the chosen path before: nothing, or an older export
OldCsvFiles == { NoFile, File(<< CsvHeader, Quote \o Peer1 \o Quote >>) }

InitExport ==
    /\ InitPeerManager
    /\ InitNoTest
    /\ InitNoCall
    /\ InitNoApply
    /\ InitNoHelper
    /\ peerList \in ExportLists
    /\ testedPeers = 0
    /\ totalPeers = Len(peerList)
    /\ isTesting = FALSE
    /\ enabled = [refreshButton |-> TRUE, testButton |-> TRUE,
                  applyButton |-> FALSE, exportButton |-> peerList # <<>>]
    /\ inFlight = 0
    /\ crashed = FALSE
    /\ history = [NoHistory EXCEPT !.fresh = TRUE]
    /\ csvFile \in OldCsvFiles
    /\ exported = "none"
    /\ runner = NoRunner
    /\ calls = <<>>
    /\ serviceReturn = "none"
    /\ pingLog = {}
    /\ destructor = "alive"
    /\ tester = NoTester
    /\ peerTable = EmptyTable
    /\ executed = NoFile

\* void PeerDiscoveryDialog::onExportClicked(): nothing to export, the file
\* dialog cancelled, the file not opened, or the export
onExportClicked ==
    /\ enabled.exportButton
    /\ exported = "none"
    /\ IF peerList = <<>>
       THEN exported' = "nothing" /\ UNCHANGED csvFile
       ELSE \/ exported' = "cancelled" /\ UNCHANGED csvFile
            \/ exported' = "false" /\ UNCHANGED csvFile
            \/ exportPeersToCsv(peerList)
    /\ UNCHANGED <<runner, calls, serviceReturn, pingLog, destructor, tester, peerTable, executed>>
    /\ UNCHANGED <<poolVars, testVars, dialogVars, hostVars, applyVars, helperVars>>

\* the file is opened and read again, as the unit test does
ReadBack ==
    /\ exported = "true"
    /\ exported' = "read"
    /\ UNCHANGED <<csvFile, runner, calls, serviceReturn, pingLog, destructor, tester, peerTable, executed>>
    /\ UNCHANGED <<poolVars, testVars, dialogVars, hostVars, applyVars, helperVars>>

NextExport == onExportClicked \/ ReadBack

SpecExport == InitExport /\ [][NextExport]_vars

\* the cells of a CSV line: the text between the quotes of each field, the
\* fields separated by commas outside quotes
RECURSIVE CsvCells(_, _, _)
CsvCells(line, cell, inQuotes) ==
    IF line = <<>>
    THEN << cell >>
    ELSE IF Head(line) = "\""
         THEN CsvCells(Tail(line), cell, ~inQuotes)
         ELSE IF Head(line) = "," /\ ~inQuotes
              THEN << cell >> \o CsvCells(Tail(line), <<>>, FALSE)
              ELSE CsvCells(Tail(line), Append(cell, Head(line)), inQuotes)

(* C21: the exported file holds the header row and one row per peer in list *)
(* order; the latency cell is "Not Tested" for latency -1, "Failed" for a   *)
(* latency below -1 and the number otherwise; the validity cell is "Valid"  *)
(* or "Invalid" according to isValid when latency is not -1 and empty when  *)
(* it is -1.                                                                *)
C21_CsvRows ==
    exported \in {"true", "read"} =>
        /\ csvFile.exists
        /\ Len(csvFile.lines) = Len(peerList) + 1
        /\ csvFile.lines[1] = CsvHeader
        /\ \A i \in 1..Len(peerList) :
              LET cells == CsvCells(csvFile.lines[i + 1], <<>>, FALSE)
                  peer == peerList[i]
              IN  /\ Len(cells) = 3
                  /\ cells[1] = peer.host
                  /\ cells[2] = CASE peer.latency = -1 -> NotTestedText
                                  [] peer.latency < -1 -> FailedText
                                  [] OTHER -> Digits(peer.latency)
                  /\ (cells[3] # <<>>) <=> (peer.latency # -1)
                  /\ peer.latency # -1 =>
                        cells[3] = IF peer.isValid THEN ValidText ELSE InvalidText

\* the list of the unit test has been exported: a valid peer with latency 10,
\* then an untested one
C21_Witness ==
    /\ exported = "read"
    /\ peerList = << [host |-> Peer1, latency |-> 10, isValid |-> TRUE],
                     [host |-> Peer2, latency |-> -1, isValid |-> FALSE] >>
    /\ Len(csvFile.lines) = 3

---------------------------------------------------------------------------
(* Completion accounting of the dialog, checked against the history of the  *)
(* batch under test.                                                        *)

\* the step is a delivery of a queued peerTested signal to onPeerTested
Delivery == events # <<>> /\ events' = Tail(events)

\* results received for probes of the batch under test, the result that the
\* step delivers included
ReceivedAfter == ResultReceived(Head(eventTags), Head(events)).received

(* C22: onPeerTested declares the batch under test complete (isTesting      *)
(* becomes false) exactly when the number of results received for probes of *)
(* that batch equals the number of probes submitted in it.                  *)
C22_CompleteWhenAllReceived ==
    [][(isTesting /\ Delivery) => (~isTesting' <=> ReceivedAfter = history.size)]_vars


(* C23: after a failure (a fetch error, a cancelled batch, a probe timeout, *)
(* a failed merge) a new discovery, a new test batch and a new merge can be  *)
(* started: the process is alive, Refresh can be clicked whenever no batch   *)
(* is under test, and Test can be clicked whenever the dialog holds a peer  *)
(* list, tests nothing and waits for no reply.                              *)
C23_CanStartAgain ==
    /\ ~crashed
    /\ ~isTesting => enabled.refreshButton
    /\ (~isTesting /\ inFlight = 0 /\ peerList # <<>>) => enabled.testButton

---------------------------------------------------------------------------
(* ServiceManager: systemctl commands run through an IProcessRunner, which  *)
(* is the MockProcessRunner of the unit tests or the ProcessRunner of the   *)
(* application.  A command is the sequence of its words, program first.     *)

ServiceName == <<"y", "g", "g", "d", "r", "a", "s", "i", "l">>

Systemctl == <<"s", "y", "s", "t", "e", "m", "c", "t", "l">>

Pkexec == <<"p", "k", "e", "x", "e", "c">>

ActiveText == <<"a", "c", "t", "i", "v", "e">>

\* QString::split(sep): the pieces of the text between the separators, empty
\* pieces included
Split(text, sep) ==
    LET cuts == { i \in 1..Len(text) : text[i] = sep }
        n == Cardinality(cuts)
        cut(k) == CHOOSE i \in cuts : Cardinality({ j \in cuts : j < i }) = k - 1
        start(k) == IF k = 1 THEN 1 ELSE cut(k - 1) + 1
        stop(k) == IF k = n + 1 THEN Len(text) ELSE cut(k) - 1
    IN  [k \in 1..(n + 1) |-> SubSeq(text, start(k), stop(k))]

\* the commands of the four methods, and one with the action in one word
IsActiveCommand == << Systemctl, <<"i", "s", "-", "a", "c", "t", "i", "v", "e">>, ServiceName >>

ActionCommand(words) == << Pkexec, Systemctl >> \o words \o << ServiceName >>

MockCommands ==
    { IsActiveCommand,
      ActionCommand(<< <<"s", "t", "a", "r", "t">> >>),
      ActionCommand(<< <<"s", "t", "o", "p">> >>),
      ActionCommand(<< <<"e", "n", "a", "b", "l", "e">>, <<"-", "-", "n", "o", "w">> >>),
      ActionCommand(<< <<"e", "n", "a", "b", "l", "e", " ", "-", "-", "n", "o", "w">> >>),
      <<>> }

\* MockProcessRunner after at most one setResponse(program, arguments,
\* exitCode, output, errorOutput)
MockRunners ==
    { [kind |-> "mock", command |-> c, state |-> "exited", exitCode |-> e,
       output |-> o, errorOutput |-> r] :
          c \in MockCommands,
          e \in { 0, 1, 3 },
          o \in { <<>>, ActiveText, <<"i", "n", "a", "c", "t", "i", "v", "e">>, <<"a", "c", "t", "i", "v", "e", "\n">> },
          r \in { <<>>, <<"f", "a", "i", "l">> } }

\* ProcessRunner: how the QProcess it starts ends.  The process exits with a
\* code, is killed by a signal, cannot be started, or is still running when
\* waitForFinished() gives up after its default 30 s.  A command that has not
\* exited has written nothing: its output goes to a pipe and is flushed when
\* it exits.
ProcessRunners ==
    { [kind |-> "process", command |-> <<>>, state |-> "exited", exitCode |-> e,
       output |-> o, errorOutput |-> <<>>] :
          e \in { 0, 1, 3, 126, 127 },
          o \in { <<>>, <<"a", "c", "t", "i", "v", "e", "\n">>, <<"i", "n", "a", "c", "t", "i", "v", "e", "\n">>, <<"a", "c", "t", "i", "v", "a", "t", "i", "n", "g", "\n">> } }
        \cup { [kind |-> "process", command |-> <<>>, state |-> st, exitCode |-> 0,
                output |-> <<>>, errorOutput |-> <<>>] :
                   st \in { "crashed", "failedToStart", "timedOut" } }

\* QProcess::exitCode() after waitForFinished(): the code of a process that
\* exited, the signal of one that was killed (here 11, SIGSEGV), and the
\* initial value 0 when
\* the process never started or has not finished
QProcessExitCode(r) ==
    CASE r.state = "exited" -> r.exitCode
      [] r.state = "crashed" -> 11
      [] OTHER -> 0

MockNoResponse == <<"M", "o", "c", "k", ":", " ", "N", "o", " ", "r", "e", "s", "p", "o", "n", "s", "e", " ", "s", "e", "t">>

\* int IProcessRunner::run(program, arguments, output, errorOutput)
Run(command) ==
    IF runner.kind = "mock"
    THEN IF runner.command = command
         THEN [exitCode |-> runner.exitCode, output |-> runner.output,
               errorOutput |-> runner.errorOutput]
         ELSE [exitCode |-> 1, output |-> <<>>, errorOutput |-> MockNoResponse]
    ELSE [exitCode |-> QProcessExitCode(runner), output |-> trimmed(runner.output),
          errorOutput |-> trimmed(runner.errorOutput)]

Bool(b) == IF b THEN "true" ELSE "false"

\* faulty variant: the output of systemctl is not looked at
isServiceRunning_ExitCodeOnly ==
    /\ serviceReturn = "none"
    /\ calls' = Append(calls, IsActiveCommand)
    /\ serviceReturn' = Bool(Run(IsActiveCommand).exitCode = 0)
    /\ UNCHANGED <<runner, csvFile, exported, pingLog, destructor, tester, peerTable, executed>>
    /\ UNCHANGED <<poolVars, testVars, dialogVars, hostVars, applyVars, helperVars>>

\* bool ServiceManager::isServiceRunning() const
isServiceRunning ==
    /\ serviceReturn = "none"
    /\ calls' = Append(calls, IsActiveCommand)
    /\ LET res == Run(IsActiveCommand)
       IN  serviceReturn' = Bool(res.exitCode = 0 /\ res.output = ActiveText)
    /\ UNCHANGED <<runner, csvFile, exported, pingLog, destructor, tester, peerTable, executed>>
    /\ UNCHANGED <<poolVars, testVars, dialogVars, hostVars, applyVars, helperVars>>

\* bool ServiceManager::executeCommand(const QString &action) const
executeCommand(action) ==
    /\ serviceReturn = "none"
    /\ calls' = Append(calls, ActionCommand(Split(action, " ")))
    /\ serviceReturn' = Bool(Run(ActionCommand(Split(action, " "))).exitCode = 0)
    /\ UNCHANGED <<runner, csvFile, exported, pingLog, destructor, tester, peerTable, executed>>
    /\ UNCHANGED <<poolVars, testVars, dialogVars, hostVars, applyVars, helperVars>>

startService == executeCommand(<<"s", "t", "a", "r", "t">>)

stopService == executeCommand(<<"s", "t", "o", "p">>)

enableService == executeCommand(<<"e", "n", "a", "b", "l", "e", " ", "-", "-", "n", "o", "w">>)

\* ServiceManager mgr(serviceName, &runner)
InitService ==
    /\ InitPeerManager
    /\ InitNoTest
    /\ InitDialog
    /\ InitNoCall
    /\ InitNoApply
    /\ InitNoHelper
    /\ csvFile = NoFile
    /\ exported = "none"
    /\ runner \in MockRunners \cup ProcessRunners
    /\ calls = <<>>
    /\ serviceReturn = "none"
    /\ pingLog = {}
    /\ destructor = "alive"
    /\ tester = NoTester
    /\ peerTable = EmptyTable
    /\ executed = NoFile

NextService == isServiceRunning \/ startService \/ stopService \/ enableService

SpecService == InitService /\ [][NextService]_vars

\* the command of the call ran and exited with code 0
ExitedWithZero ==
    /\ Len(calls) = 1
    /\ IF runner.kind = "mock"
       THEN runner.command = calls[1] /\ runner.exitCode = 0
       ELSE runner.state = "exited" /\ runner.exitCode = 0

\* what the command of the call wrote to its standard output
OutputOfCall ==
    IF runner.kind = "mock"
    THEN IF runner.command = calls[1] THEN runner.output ELSE <<>>
    ELSE trimmed(runner.output)

(* C24: isServiceRunning returns true exactly when systemctl is-active      *)
(* <service> exits with code 0 and its output is "active".                  *)
C24_ActiveOnly ==
    (serviceReturn # "none" /\ calls = << IsActiveCommand >>)
        => (serviceReturn = "true" <=> (ExitedWithZero /\ OutputOfCall = ActiveText))

\* the application's runner: systemctl has printed "active" and exited with 0
C24_Witness ==
    /\ calls = << IsActiveCommand >>
    /\ runner.kind = "process"
    /\ runner.state = "exited"
    /\ runner.exitCode = 0
    /\ runner.output = <<"a", "c", "t", "i", "v", "e", "\n">>
    /\ serviceReturn = "true"

(* C25: startService, stopService and enableService each run exactly one    *)
(* command pkexec systemctl <action words> <service> and return true        *)
(* exactly when that command exits with code 0.                             *)
C25_OneCommandExitZero ==
    (serviceReturn # "none" /\ calls # << IsActiveCommand >>)
        => /\ calls \in { << ActionCommand(<< <<"s", "t", "a", "r", "t">> >>) >>,
                          << ActionCommand(<< <<"s", "t", "o", "p">> >>) >>,
                          << ActionCommand(<< <<"e", "n", "a", "b", "l", "e">>, <<"-", "-", "n", "o", "w">> >>) >> }
           /\ serviceReturn = "true" <=> ExitedWithZero

---------------------------------------------------------------------------
(* Cancellation and the batch it was requested for *)

\* the runnable r emits its result and returns in this step
Reports(r) ==
    /\ Len(events') = Len(events) + 1
    /\ running' = Replace(running, r, Returned)

(* C26: once cancelTests() has been called, every probe submitted before    *)
(* that call reports an unmeasured result (isValid false), also when        *)
(* resetCancellation() has been called for the next batch while the probe   *)
(* was still running.                                                       *)
C26_CancelledStaysUnmeasured ==
    [][\A r \in BagToSet(running) :
          (r.cancelled /\ Reports(r)) => ~Last(events').isValid]_vars

---------------------------------------------------------------------------
(* The candidate list at the end of a batch *)

\* the batch's record with the result that is being delivered
HistoryAfter == ResultReceived(Head(eventTags), Head(events))

\* the delivery that ends a batch whose probes have all reported, none of
\* them stopped
CompletesBatch ==
    /\ isTesting
    /\ Delivery
    /\ ~isTesting'
    /\ HistoryAfter.received = history.size

(* C27: when a batch that was not cancelled completes, every entry of the   *)
(* candidate list has been updated with the result of its own probe, also   *)
(* in a list that holds the same URI more than once: after a batch whose    *)
(* probes all measured a latency, every entry is valid.                     *)
C27_EveryEntryUpdated ==
    [][(CompletesBatch /\ HistoryAfter.allValid)
          => \A i \in 1..Len(peerList') : peerList'[i].isValid]_vars

---------------------------------------------------------------------------
(* A new candidate set and the results of older probes *)

(* C28: from the installation of a new candidate set by onPeersDiscovered   *)
(* until a batch is started for it, every candidate has latency -1 and      *)
(* isValid false and testedPeers is 0: results of probes submitted for the  *)
(* previous set change neither the candidates nor the counters.             *)
C28_FreshSetUntouched ==
    history.fresh =>
        /\ testedPeers = 0
        /\ \A i \in 1..Len(peerList) :
              peerList[i].latency = -1 /\ ~peerList[i].isValid

---------------------------------------------------------------------------
(* updateConfig: what the caller is told about a failure *)

\* the helper ended with a non-zero exit code and without the success marker
FailedWithoutMarker ==
    /\ process.state = "Finished"
    /\ process.exitCode # 0
    /\ ~Contains(process.stdOut, SuccessMarker)
    /\ ~Contains(process.stdErr, SuccessMarker)

(* C30: whenever updateConfig has returned false it has emitted the error   *)
(* signal with a message; when the helper ended with a non-zero exit code   *)
(* and without the success marker, the message carries the helper's stderr, *)
(* or its stdout when stderr is empty.                                      *)
C30_FalseEmitsError ==
    (applyPc = "returned" /\ returned = "false") =>
        /\ spy # <<>>
        /\ Last(spy).signal = "error"
        /\ Last(spy).message # <<>>
        /\ FailedWithoutMarker =>
              Last(spy).message[3] =
                  IF process.stdErr # <<>> THEN process.stdErr ELSE process.stdOut

---------------------------------------------------------------------------
(* run() in the steps of its wait loop: how a ping process is stopped on    *)
(* the cancellation path and on the timeout path                            *)

\* the variables a pool thread leaves alone, pingLog apart
notPoolVars ==
    <<testVars, dialogVars, hostVars, applyVars, helperVars,
      csvFile, exported, runner, calls, serviceReturn, destructor, tester, peerTable, executed>>

\* faulty variant: the wait loop does not read the cancel flag
WaitRound_IgnoreFlag(r) ==
    /\ r.pc = "wait"
    /\ IF r.timeoutRemaining - CHECK_INTERVAL_MS <= 0
       THEN running' = Replace(running, r,
                [r EXCEPT !.pc = "stop", !.timeoutRemaining = @ - CHECK_INTERVAL_MS])
       ELSE running' = Replace(running, r,
                [r EXCEPT !.timeoutRemaining = @ - CHECK_INTERVAL_MS])
    /\ UNCHANGED <<cancelTestsFlag, submitted, poolQueue, events, delivered,
                   queuedAtCancel, eventTags, pingLog>>

\* one round of the wait loop with waitForFinished(CHECK_INTERVAL_MS)
\* returning false: the flag is read, then the time left is counted down
WaitRound(r) ==
    /\ r.pc = "wait"
    /\ IF cancelTestsFlag # 0
       THEN running' = Replace(running, r, [r EXCEPT !.pc = "stop"])
       ELSE IF r.timeoutRemaining - CHECK_INTERVAL_MS <= 0
            THEN running' = Replace(running, r,
                     [r EXCEPT !.pc = "stop", !.timeoutRemaining = @ - CHECK_INTERVAL_MS])
            ELSE running' = Replace(running, r,
                     [r EXCEPT !.timeoutRemaining = @ - CHECK_INTERVAL_MS])
    /\ UNCHANGED <<cancelTestsFlag, submitted, poolQueue, events, delivered,
                   queuedAtCancel, eventTags, pingLog>>

\* "if (pingProcess.state() == QProcess::Running) { pingProcess.terminate();"
StopTerminate(r) ==
    /\ r.pc = "stop"
    /\ IF r.proc = "running"
       THEN running' = Replace(running, r,
                [r EXCEPT !.pc = "grace",
                          !.pingCalls = @ \o << "Running", "terminate" >>])
       ELSE running' = Replace(running, r,
                [r EXCEPT !.pc = "emit", !.pingCalls = @ \o << "NotRunning" >>])
    /\ UNCHANGED <<cancelTestsFlag, submitted, poolQueue, events, delivered,
                   queuedAtCancel, eventTags, pingLog>>

\* faulty variant: the process is killed whatever the grace wait returned
GraceWait_AlwaysKill(r) ==
    /\ r.pc = "grace"
    /\ \/ running' = Replace(running, r,
              [r EXCEPT !.pc = "emit", !.proc = "exited",
                        !.pingCalls = @ \o << "exited", "kill" >>])
       \/ running' = Replace(running, r,
              [r EXCEPT !.pc = "emit", !.proc = "killed",
                        !.pingCalls = @ \o << "expired", "kill" >>])
    /\ UNCHANGED <<cancelTestsFlag, submitted, poolQueue, events, delivered,
                   queuedAtCancel, eventTags, pingLog>>

\* "if (!pingProcess.waitForFinished(500)) { pingProcess.kill();
\* pingProcess.waitForFinished(100); }": the process exits within the grace
\* period, or the wait expires and the process is killed
GraceWait(r) ==
    /\ r.pc = "grace"
    /\ \/ running' = Replace(running, r,
              [r EXCEPT !.pc = "emit", !.proc = "exited",
                        !.pingCalls = @ \o << "exited" >>])
       \/ running' = Replace(running, r,
              [r EXCEPT !.pc = "emit", !.proc = "killed",
                        !.pingCalls = @ \o << "expired", "kill" >>])
    /\ UNCHANGED <<cancelTestsFlag, submitted, poolQueue, events, delivered,
                   queuedAtCancel, eventTags, pingLog>>

\* "emit peerTested(peerData); return;" at the end of either path
StopEmit(r) ==
    /\ r.pc = "emit"
    /\ EmitAndReturn(r, r.peerData)
    /\ pingLog' = pingLog \cup { r.pingCalls \o << "emit" >> }
    /\ UNCHANGED <<cancelTestsFlag, submitted, poolQueue, delivered, queuedAtCancel>>

StopWorker ==
    \E r \in BagToSet(running) :
        /\ \/ RunStart(r, {"running", "failedToStart"}) /\ UNCHANGED pingLog
           \/ RunFinished(r, AllPingResults) /\ UNCHANGED pingLog
           \/ WaitRound(r)
           \/ StopTerminate(r)
           \/ GraceWait(r)
           \/ StopEmit(r)
           \/ ThreadNext(r) /\ UNCHANGED pingLog
        /\ UNCHANGED notPoolVars

\* the caller submits probes and may cancel them; the flag is not reset,
\* which run() would not notice once it has left its wait loop
NextStop == ProbeSubmit \/ Cancel \/ Deliver \/ StopWorker

SpecStop == Init /\ [][NextStop]_vars

\* what run() may see and do from the check of the process state to the
\* emission of the result
StopSequences ==
    { << "NotRunning", "emit" >>,
      << "Running", "terminate", "exited", "emit" >>,
      << "Running", "terminate", "expired", "kill", "emit" >> }

IsPrefix(s, t) == Len(s) <= Len(t) /\ s = SubSeq(t, 1, Len(s))

(* C29: on the cancel-while-waiting path and on the timeout path, run()     *)
(* calls terminate() on a ping process that is still running, waits the     *)
(* grace period and calls kill() only when the process has not exited by    *)
(* then; kill() never comes without a terminate() before it, and the result *)
(* is emitted after these steps.                                            *)
C29_TerminateThenKill ==
    /\ pingLog \subseteq StopSequences
    /\ \A r \in BagToSet(running) :
          /\ \E full \in StopSequences : IsPrefix(r.pingCalls, full)
          /\ r.pc \in {"stop", "grace", "emit"} =>
                /\ cancelTestsFlag # 0 \/ r.timeoutRemaining <= 0
                /\ r.pc = "emit" =>
                      \E full \in StopSequences : r.pingCalls \o << "emit" >> = full
    /\ Len(events) + delivered >= Cardinality(pingLog)

\* with no cancellation, a ping that outlived the timeout and the grace
\* period has been terminated and killed, and the result has been delivered
C29_Witness ==
    /\ << "Running", "terminate", "expired", "kill", "emit" >> \in pingLog
    /\ queuedAtCancel = -1
    /\ delivered = 1

---------------------------------------------------------------------------
(* One result for each run() *)

\* the number of peerTested signals the runnables have emitted so far
Emitted == Len(events) + delivered

\* the runnable r, which had begun run(), returns from it in this step
ReturnsFromRun(r) == r.pc # "returned" /\ running' = Replace(running, r, Returned)

(* C33: every probe task that begins PeerTestRunnable::run emits peerTested *)
(* exactly once on every path through run: the step in which run() returns  *)
(* emits one signal, and no signal is emitted in any other step.            *)
C33_EmitsExactlyOnce ==
    [][/\ \A r \in BagToSet(running) : ReturnsFromRun(r) => Emitted' = Emitted + 1
       /\ Emitted' # Emitted =>
             /\ Emitted' = Emitted + 1
             /\ \E r \in BagToSet(running) : ReturnsFromRun(r)]_vars

\* a probe has run after cancelTests(), has returned, and its one signal
\* has been delivered
C33_Witness ==
    /\ submitted = 1
    /\ queuedAtCancel = 0
    /\ cancelTestsFlag # 0
    /\ delivered = 1
    /\ events = <<>>
    /\ Busy = 0

---------------------------------------------------------------------------
(* The dialog's progress counters *)

(* C34: in every reachable dialog state, under any interleaving of Test,    *)
(* Stop and Refresh clicks with result and discovery deliveries,            *)
(* testedPeers <= totalPeers.                                               *)
C34_ProgressAtMostAll == testedPeers <= totalPeers

(* C35: onPeerTested never executes while totalPeers is 0, so the progress  *)
(* computation (testedPeers * 100) / totalPeers never divides by zero.      *)
C35_NoDivisionByZero == [][Delivery => totalPeers # 0]_vars

---------------------------------------------------------------------------
(* update-peers.sh and a peer list without peers *)

\* no line of the peer list file is a peer URI
NoValidPeer ==
    \A i \in 1..Len(peersFile.lines) : ~WellFormed(trimmed(peersFile.lines[i]))

(* C32: if the peer list file contains no line in valid peer-URI format,    *)
(* update-peers.sh exits non-zero and does not modify the configuration     *)
(* file, so a successful run never leaves an empty Peers block.             *)
C32_NoValidPeersRejected ==
    (helperPc = "done" /\ peersFile.exists /\ NoValidPeer)
        => /\ helperExit # 0
           /\ configFile = configAtStart


(* C37: whenever update-peers.sh exits with a non-zero code, the            *)
(* configuration file is unchanged from its content before the run.         *)
C37_FailureLeavesConfig ==
    (helperPc = "done" /\ helperExit > 0) => configFile = configAtStart

---------------------------------------------------------------------------
(* Discoveries and running batches *)

(* C36: while isTesting is true the candidate list is not replaced:         *)
(* onPeersDiscovered is never processed between onTestClicked and the end   *)
(* of that batch.                                                           *)
C36_NoDiscoveryWhileTesting == isTesting => ~history.fresh

---------------------------------------------------------------------------
(* PeerManager::~PeerManager: cancelTests(), threadPool->clear() and        *)
(* threadPool->waitForDone(-1) on the main thread, while the pool threads   *)
(* run on                                                                   *)

\* the main thread before the destructor: probes are submitted and results
\* are received
AliveSubmit == destructor = "alive" /\ Submit

AliveDeliver == destructor = "alive" /\ Deliver

\* ~PeerManager up to the call of waitForDone: the flag is set and the queue
\* is cleared (the second clear() finds it empty)
Destroy ==
    /\ destructor = "alive"
    /\ cancelTests
    /\ destructor' = "waiting"
    /\ UNCHANGED <<testVars, dialogVars, hostVars, applyVars, helperVars,
                   csvFile, exported, runner, calls, serviceReturn, pingLog,
                   tester, peerTable, executed>>

\* waitForDone(-1) returns when no thread of the pool is active and the
\* queue is empty; the destructor returns and the members, the flag among
\* them, are destroyed
WaitForDone ==
    /\ destructor = "waiting"
    /\ running = EmptyBag
    /\ poolQueue = <<>>
    /\ destructor' = "destroyed"
    /\ UNCHANGED <<poolVars, testVars, dialogVars, hostVars, applyVars, helperVars,
                   csvFile, exported, runner, calls, serviceReturn, pingLog,
                   tester, peerTable, executed>>

\* the pool threads, with pings that finish within MaxPingRounds polling
\* rounds unless they are stopped
DestroyWorker ==
    \E r \in BagToSet(running) :
        /\ \/ RunStart(r, {"running"}) /\ UNCHANGED pingLog
           \/ RunFinished(r, PoolPingResults) /\ UNCHANGED pingLog
           \/ (cancelTestsFlag # 0 \/ RoundsUsed(r) < MaxPingRounds) /\ WaitRound(r)
           \/ StopTerminate(r)
           \/ GraceWait(r)
           \/ StopEmit(r)
           \/ ThreadNext(r) /\ UNCHANGED pingLog
        /\ UNCHANGED notPoolVars

NextDestroy == AliveSubmit \/ AliveDeliver \/ Destroy \/ WaitForDone \/ DestroyWorker

\* the pool threads are scheduled, and the main thread wakes up when the
\* pool is done
SpecDestroyLive ==
    /\ Init
    /\ [][NextDestroy]_vars
    /\ WF_vars(DestroyWorker)
    /\ WF_vars(WaitForDone)

\* the steps a pool thread has before it once the flag is set: a polling
\* round, terminate(), the grace wait with kill(), the emission, and the
\* look for the next runnable
StepsLeft(r) ==
    CASE r.pc = "wait" -> 5
      [] r.pc = "stop" -> 4
      [] r.pc = "grace" -> 3
      [] r.pc = "emit" -> 2
      [] r.pc = "run" -> 2
      [] r.pc = "returned" -> 1

RECURSIVE SumSteps(_, _)
SumSteps(bag, rs) ==
    IF rs = {}
    THEN 0
    ELSE LET r == CHOOSE x \in rs : TRUE
         IN  CopiesIn(r, bag) * StepsLeft(r) + SumSteps(bag, rs \ {r})

TotalSteps(bag) == SumSteps(bag, BagToSet(bag))

(* C38: destroying PeerManager terminates: after the destructor has called  *)
(* cancelTests() and cleared the queue, every step of a pool thread brings  *)
(* it nearer to its end (at most one more polling round, the terminate      *)
(* grace wait and the kill wait), so waitForDone returns; and when the      *)
(* destructor has returned no probe task is left that could read the flag.  *)
C38_DestructorTerminates ==
    /\ [](destructor = "waiting" => cancelTestsFlag # 0 /\ poolQueue = <<>>)
    /\ [][(destructor = "waiting" /\ running' # running)
             => TotalSteps(running') < TotalSteps(running)]_vars
    /\ [](destructor = "destroyed" => running = EmptyBag /\ poolQueue = <<>>)
    /\ (destructor = "waiting") ~> (destructor = "destroyed")

\* the destructor has returned after a pool with all its threads busy and a
\* probe queued was destroyed, and a ping that outlived the grace period was
\* killed
C38_Witness ==
    /\ destructor = "destroyed"
    /\ queuedAtCancel >= 1
    /\ << "Running", "terminate", "expired", "kill", "emit" >> \in pingLog

---------------------------------------------------------------------------
(* PeerTester (src/PeerManager.cpp): testPeer runs in the worker thread,    *)
(* requestCancel is invoked from the main thread through a direct           *)
(* connection. Each access to activeProcesses is recorded with whether the  *)
(* accessing thread held processesMutex.                                    *)

notTester ==
    <<poolVars, testVars, dialogVars, hostVars, applyVars, helperVars,
      csvFile, exported, runner, calls, serviceReturn, pingLog, destructor, peerTable,
      executed>>

\* an access to activeProcesses by a thread
Access(thread, op) ==
    [thread |-> thread, op |-> op, held |-> tester.processesMutex = thread]

\* testPeer up to "QProcess* pingProcess = new QProcess(this)": a cancelled
\* tester returns at once
TesterEnter ==
    /\ tester.pc = "idle"
    /\ tester.started < MaxProbes
    /\ IF tester.cancelRequested # 0
       THEN tester' = [tester EXCEPT !.started = @ + 1]
       ELSE tester' = [tester EXCEPT !.started = @ + 1,
                                     !.pingProcess = tester.started + 1,
                                     !.pc = "lock"]
    /\ UNCHANGED notTester

\* "QMutexLocker locker(&processesMutex);" of testPeer
TesterLock ==
    /\ tester.pc = "lock"
    /\ tester.processesMutex = "free"
    /\ tester' = [tester EXCEPT !.processesMutex = "worker", !.pc = "append"]
    /\ UNCHANGED notTester

\* "activeProcesses.append(pingProcess);"
TesterAppend ==
    /\ tester.pc = "append"
    /\ tester' = [tester EXCEPT !.activeProcesses = @ \cup {tester.pingProcess},
                                !.accesses = @ \cup {Access("worker", "append")},
                                !.pc = "unlock"]
    /\ UNCHANGED notTester

\* the locker goes out of scope; the lambda is connected and ping is started
TesterStart ==
    /\ tester.pc = "unlock"
    /\ tester' = [tester EXCEPT !.processesMutex = "free",
                                !.unfinished = @ \cup {tester.pingProcess},
                                !.timeoutRemaining = PING_TIMEOUT_MS,
                                !.pc = "wait"]
    /\ UNCHANGED notTester

\* waitForFinished(CHECK_INTERVAL_MS) returns false and the loop body runs
TesterPoll ==
    /\ tester.pc = "wait"
    /\ LET waited == [tester EXCEPT !.waitedHolding =
                                        @ \/ tester.processesMutex = "worker"]
       IN  IF tester.cancelRequested # 0
           THEN tester' = [waited EXCEPT !.pc = "idle"]
           ELSE IF tester.timeoutRemaining - CHECK_INTERVAL_MS <= 0
                THEN tester' = [waited EXCEPT !.timeoutRemaining = @ - CHECK_INTERVAL_MS,
                                              !.pc = "after"]
                ELSE tester' = [waited EXCEPT !.timeoutRemaining = @ - CHECK_INTERVAL_MS]
    /\ UNCHANGED notTester

\* the ping ends inside waitForFinished, which emits finished(): the lambda
\* runs in the worker thread before waitForFinished returns true
TesterFinished ==
    /\ tester.pc = "wait"
    /\ tester' = [tester EXCEPT !.waitedHolding = @ \/ tester.processesMutex = "worker",
                                !.finishing = tester.pingProcess,
                                !.back = "after",
                                !.pc = "lambdaLock"]
    /\ UNCHANGED notTester

\* a ping that was terminated ends after testPeer has returned: the worker's
\* event loop emits finished() and the lambda runs
TesterFinishedLater ==
    /\ tester.pc = "idle"
    /\ \E p \in tester.unfinished :
           tester' = [tester EXCEPT !.finishing = p, !.back = "idle",
                                    !.pc = "lambdaLock"]
    /\ UNCHANGED notTester

\* "QMutexLocker locker(&processesMutex);" of the lambda
LambdaLock ==
    /\ tester.pc = "lambdaLock"
    /\ tester.processesMutex = "free"
    /\ tester' = [tester EXCEPT !.processesMutex = "worker", !.pc = "lambdaRemove"]
    /\ UNCHANGED notTester

\* "activeProcesses.removeAll(pingProcess); pingProcess->deleteLater();"
LambdaRemove ==
    /\ tester.pc = "lambdaRemove"
    /\ tester' = [tester EXCEPT !.activeProcesses = @ \ {tester.finishing},
                                !.unfinished = @ \ {tester.finishing},
                                !.accesses = @ \cup {Access("worker", "removeAll")},
                                !.pc = "lambdaUnlock"]
    /\ UNCHANGED notTester

\* the lambda returns
LambdaUnlock ==
    /\ tester.pc = "lambdaUnlock"
    /\ tester' = [tester EXCEPT !.processesMutex = "free", !.finishing = 0,
                                !.pc = tester.back]
    /\ UNCHANGED notTester

\* testPeer after the loop: the flag is read, the output is parsed and
\* peerTested is emitted unless the flag is set
TesterAfter ==
    /\ tester.pc = "after"
    /\ tester' = [tester EXCEPT !.pc = "idle"]
    /\ UNCHANGED notTester

\* void PeerTester::requestCancel(), run by the main thread:
\* PeerManager::cancelTests invokes it with Qt::DirectConnection
requestCancel ==
    /\ tester' = [tester EXCEPT !.cancelRequested = 1,
                                !.accesses = @ \cup {Access("main", "size")}]
    /\ UNCHANGED notTester

\* void PeerTester::resetCancel()
resetCancel ==
    /\ tester' = [tester EXCEPT !.cancelRequested = 0]
    /\ UNCHANGED notTester

NextTester ==
    \/ TesterEnter \/ TesterLock \/ TesterAppend \/ TesterStart \/ TesterPoll
    \/ TesterFinished \/ TesterFinishedLater \/ LambdaLock \/ LambdaRemove
    \/ LambdaUnlock \/ TesterAfter \/ requestCancel \/ resetCancel

SpecTester == Init /\ [][NextTester]_vars

(* C31: every access to PeerTester::activeProcesses is made by a thread     *)
(* that holds processesMutex, and the worker never waits for the ping       *)
(* subprocess while it holds the mutex.                                     *)
C31_MutexGuardsActiveProcesses ==
    /\ \A a \in tester.accesses : a.held
    /\ ~tester.waitedHolding

---------------------------------------------------------------------------
(* updateConfig and the other processes of the machine: the script is       *)
(* extracted to the fixed path /tmp/yggtray-update-peers.sh and that path   *)
(* is handed to "pkexec sh", which opens it after the authorisation.        *)

\* ":/scripts/update-peers.sh" as extractResource writes it
EmbeddedScript == File(<< <<"#!/bin/sh">> >>)

\* what another process leaves in the file
ForeignScript == File(<< <<"#!/bin/sh">>, <<"id">> >>)

notApply == <<poolVars, testVars, dialogVars, hostVars, helperVars>>

notExecuted ==
    <<csvFile, exported, runner, calls, serviceReturn, pingLog, destructor, tester,
      peerTable>>

\* the steps of updateConfig itself
TmpUpdateConfig == NextApply /\ UNCHANGED executed

\* a process of the same user, or the owner of a file created at the path
\* before extractResource opened it, writes /tmp/yggtray-update-peers.sh
\* while updateConfig has not returned
OtherProcessWrites ==
    /\ applyPc # "returned"
    /\ executed = NoFile
    /\ scriptFile' = ForeignScript
    /\ UNCHANGED <<selectedPeers, sortedPeers, policyFile, peersFile, applyPc,
                   process, returned, executed>>
    /\ UNCHANGED <<notApply, notExecuted>>

\* pkexec has authorised the call and sh opens the path of its first
\* argument
ShellOpensScript ==
    /\ applyPc = "wait"
    /\ process.state = "Running"
    /\ executed = NoFile
    /\ scriptFile.exists
    /\ executed' = scriptFile
    /\ UNCHANGED <<applyVars, notApply, notExecuted>>

NextTmp == TmpUpdateConfig \/ OtherProcessWrites \/ ShellOpensScript

SpecTmp == InitApply /\ [][NextTmp]_vars

(* C40: the script run through pkexec has exactly the content of the        *)
(* embedded resource, whatever other local processes do to                  *)
(* /tmp/yggtray-update-peers.sh before or between extraction and execution. *)
C40_RunsEmbeddedScript == executed.exists => executed = EmbeddedScript

---------------------------------------------------------------------------
(* PeerDiscoveryDialog::peerTable: a QTableWidget with sorting enabled      *)
(* (setupUi), filled by onPeersDiscovered, updated by onPeerTested, sorted  *)
(* when the user clicks a header section, and read by onApplyClicked        *)
(* through the numbers of the selected rows.                                *)

MaxTableRows == 2

\* the hosts the server list can hold
TableHost(k) == <<"p", "e", "e", "r">> \o Digits(k)

\* the discovered lists: up to MaxTableRows different hosts in any order
TableLists ==
    { peers \in UNION { [1..n -> { DefaultPeer(TableHost(k)) : k \in 1..MaxTableRows }]
                            : n \in 0..MaxTableRows } :
          \A i, j \in DOMAIN peers : i # j => peers[i] # peers[j] }

\* what a probe of a listed host reports
TableResults(list) ==
    { [host |-> list[i].host, latency |-> l, isValid |-> l >= 0] :
          i \in DOMAIN list, l \in {-1, 3, 8} }

\* a cell without an item, and a row of such cells
NoItem == [item |-> "none"]

EmptyRow == [host |-> NoItem, latency |-> NoItem, valid |-> NoItem]

\* new QTableWidgetItem(text)
TextItem(text) == [text |-> text]

\* LatencyItem(latency, isValid, isTested)
LatencyItem(latency, isValid, isTested) ==
    [latency |-> latency, isValid |-> isValid, isTested |-> isTested]

\* the characters of the host texts in code point order
TableChars == DigitChars \o <<"e", "p", "r">>

CharRank(c) == CHOOSE k \in DOMAIN TableChars : TableChars[k] = c

\* QString comparison of two item texts
TextLess(a, b) ==
    \E k \in 1..(Len(a) + 1) :
        /\ \A j \in 1..(k - 1) : j <= Len(b) /\ a[j] = b[j]
        /\ k <= Len(b)
        /\ k > Len(a) \/ CharRank(a[k]) < CharRank(b[k])

\* bool LatencyItem::operator<(const QTableWidgetItem &other) const
LatencyLess(a, b) ==
    IF a.latency < 0 /\ b.latency >= 0
    THEN FALSE
    ELSE IF b.latency < 0 /\ a.latency >= 0
         THEN TRUE
         ELSE a.latency < b.latency

\* the item of a row in column 0 (Host) or 1 (Latency)
ItemAt(row, column) == IF column = 0 THEN row.host ELSE row.latency

\* operator< of the items of a column
ItemLess(column, a, b) ==
    IF column = 0 THEN TextLess(a.text, b.text) ELSE LatencyLess(a, b)

\* the comparison QTableModel sorts with: itemLessThan for ascending order,
\* itemGreaterThan for descending order
Before(column, order, a, b) ==
    IF order = "asc" THEN ItemLess(column, a, b) ELSE ItemLess(column, b, a)

Without(seq, k) == SubSeq(seq, 1, k - 1) \o SubSeq(seq, k + 1, Len(seq))

PutCell(row, column, item) ==
    IF column = 0 THEN [row EXCEPT !.host = item]
    ELSE IF column = 1 THEN [row EXCEPT !.latency = item]
    ELSE [row EXCEPT !.valid = item]

\* the rows whose cell in the column holds an item, up to the first that
\* does not
SortableCount(rows, column) ==
    SetMin({ n \in 0..Len(rows) :
                 n = Len(rows) \/ ItemAt(rows[n + 1], column) = NoItem })

\* std::lower_bound: the first place whose item does not come before the
\* new one
LowerBound(items, column, order, item) ==
    SetMin({ k \in 1..(Len(items) + 1) :
                 k = Len(items) + 1 \/ ~Before(column, order, items[k], item) })

\* peerTable->setItem(r, column, item), rows counted from 1: with sorting
\* enabled an item set in the sorted column moves its row to its place
setItem(rows, sorting, section, order, r, column, item) ==
    LET put == [rows EXCEPT ![r] = PutCell(@, column, item)]
        count == SortableCount(put, column)
        colItems == [k \in 1..count |-> ItemAt(put[k], column)]
        others == IF r <= count THEN Without(colItems, r) ELSE colItems
        sortedRow == LowerBound(others, column, order, item)
    IN  IF ~sorting \/ column # section \/ column > 1 \/ sortedRow = r
        THEN put
        ELSE InsertAt(Without(put, r), sortedRow - 1, put[r])

\* std::stable_sort of the rows that hold an item in the column
RECURSIVE StableSort(_, _, _)
StableSort(rows, column, order) ==
    IF rows = <<>>
    THEN <<>>
    ELSE LET sorted == StableSort(SubSeq(rows, 1, Len(rows) - 1), column, order)
             x == rows[Len(rows)]
             after == { k \in 0..Len(sorted) :
                           \A j \in (k + 1)..Len(sorted) :
                               Before(column, order, ItemAt(x, column),
                                      ItemAt(sorted[j], column)) }
         IN  InsertAt(sorted, SetMin(after), x)

\* the sort of the table by a column: rows without an item in it stay behind
sortByColumn(rows, column, order) ==
    StableSort(SelectSeq(rows, LAMBDA row : ItemAt(row, column) # NoItem), column, order)
        \o SelectSeq(rows, LAMBDA row : ItemAt(row, column) = NoItem)

\* the loop of onPeersDiscovered from peer i on
RECURSIVE FillRows(_, _, _, _, _)
FillRows(rows, section, order, peers, i) ==
    IF i > Len(peers)
    THEN rows
    ELSE LET host == setItem(rows, TRUE, section, order, i, 0, TextItem(peers[i].host))
             lat == setItem(host, TRUE, section, order, i, 1,
                            LatencyItem(-1, FALSE, FALSE))
             valid == setItem(lat, TRUE, section, order, i, 3, TextItem("Not Tested"))
         IN  FillRows(valid, section, order, peers, i + 1)

\* onPeersDiscovered with the table: clearContents(), setRowCount() and the
\* items of every peer
TableDiscovered ==
    /\ \E peers \in TableLists :
          /\ onPeersDiscovered(peers)
          /\ peerTable' = [peerTable EXCEPT !.rows =
                 FillRows([k \in 1..Len(peers) |-> EmptyRow],
                          peerTable.section, peerTable.order, peers, 1)]
    /\ UNCHANGED <<inFlight, crashed, history>>
    /\ UNCHANGED <<poolVars, testVars, hostVars, applyVars, helperVars,
                   csvFile, exported, runner, calls, serviceReturn, pingLog,
                   destructor, tester, executed>>

\* the cells of row i as onPeerTested sets them with sorting disabled,
\* sorted again by setSortingEnabled(true)
TestedRows(rows, section, order, i, peer) ==
    LET host == setItem(rows, FALSE, section, order, i, 0, TextItem(peer.host))
        lat == setItem(host, FALSE, section, order, i, 1,
                       LatencyItem(peer.latency, peer.isValid, TRUE))
        valid == setItem(lat, FALSE, section, order, i, 3,
                         TextItem(IF peer.isValid THEN "yes" ELSE "no"))
    IN  sortByColumn(valid, section, order)

\* onPeerTested with the table, for a result of the batch under test
TableTested ==
    /\ testedPeers < totalPeers
    /\ \E peer \in TableResults(peerList) :
          LET i == SetMin({ k \in DOMAIN peerList : peerList[k].host = peer.host })
          IN  /\ onPeerTested(peer)
              /\ peerTable' = [peerTable EXCEPT !.rows =
                     IF i <= Len(peerTable.rows)
                     THEN TestedRows(peerTable.rows, peerTable.section,
                                     peerTable.order, i, peer)
                     ELSE @]
    /\ UNCHANGED <<inFlight, crashed, history>>
    /\ UNCHANGED <<poolVars, testVars, hostVars, applyVars, helperVars,
                   csvFile, exported, runner, calls, serviceReturn, pingLog,
                   destructor, tester, executed>>

\* the user clicks the header of a column: the sort indicator flips, or
\* moves to the column in ascending order, and the table is sorted
HeaderClicked ==
    /\ \E column \in {0, 1} :
          LET order == IF peerTable.section = column /\ peerTable.order = "asc"
                       THEN "desc"
                       ELSE "asc"
          IN  peerTable' = [peerTable EXCEPT
                  !.section = column,
                  !.order = order,
                  !.rows = sortByColumn(peerTable.rows, column, order)]
    /\ UNCHANGED <<poolVars, testVars, dialogVars, hostVars, applyVars, helperVars,
                   csvFile, exported, runner, calls, serviceReturn, pingLog,
                   destructor, tester, executed>>

\* the host a row shows
ShownHost(row) == IF row.host = NoItem THEN <<>> ELSE row.host.text

\* onApplyClicked with the rows the user has selected: peerList is read at
\* the numbers of the selected rows, or whole without a selection, and
\* handed to updateConfig
onApplyClicked ==
    /\ enabled.applyButton
    /\ \E rows \in SUBSET (1..Len(peerTable.rows)) :
          LET chosen == IF rows = {} THEN DOMAIN peerList
                        ELSE { r \in rows : r <= Len(peerList) }
              shown == IF rows = {} THEN DOMAIN peerTable.rows ELSE rows
          IN  /\ chosen # {}
              /\ peerTable' = [peerTable EXCEPT !.applies =
                     { [passed |-> { peerList[r].host : r \in chosen },
                        shown |-> { ShownHost(peerTable.rows[r]) : r \in shown }] }]
    /\ UNCHANGED <<poolVars, testVars, dialogVars, hostVars, applyVars, helperVars,
                   csvFile, exported, runner, calls, serviceReturn, pingLog,
                   destructor, tester, executed>>

NextTable == TableDiscovered \/ TableTested \/ HeaderClicked \/ onApplyClicked

SpecTable == Init /\ [][NextTable]_vars

(* C39: the peers onApplyClicked passes to updateConfig are exactly those   *)
(* shown in the selected rows of the table, because row i of the table      *)
(* always shows peerList[i], also with sorting enabled.                     *)
C39_ApplyPassesShownPeers ==
    /\ Len(peerTable.rows) = Len(peerList)
    /\ \A i \in DOMAIN peerList :
           peerTable.rows[i].host = TextItem(peerList[i].host)
    /\ \A a \in peerTable.applies : a.passed = a.shown

=============================================================================
